---- MODULE Spec2Model ----
(***************************************************************************)
(* A model of the table layout, span detection, merge-range derivation and *)
(* border placement of flatbread-xl / pandasxl (spans.py, layout.py,       *)
(* borders.py, pattern.py, merge.py, table/writer.py).                     *)
(*                                                                         *)
(* A table (the DataFrame df) is two axes.  An axis is a record            *)
(*   [multi |-> is it a pd.MultiIndex, nlevels |-> its depth,              *)
(*    names |-> its level names, keys |-> its ordered keys].               *)
(* A key is a tagged value: Scalar(x) for a label of a flat axis,          *)
(* TupleKey(<<x0, x1, ...>>) for a label of a hierarchical axis.  The tag  *)
(* keeps Python's distinction between the scalar None and any tuple.       *)
(* A missing label is NULL: it compares equal to itself, as None does and  *)
(* as the one NaN object does that pandas fills the tuples of a MultiIndex *)
(* with (Python compares tuple components by identity first).              *)
(*                                                                         *)
(* The specifications share the variables:                                 *)
(*   SpecSpans    get_level_spans and get_all_merge_ranges on a table,     *)
(*   SpecLayout   TableLayout built from bare dimensions,                  *)
(*   SpecBorders  add_level_borders on a fresh worksheet,                  *)
(*   SpecWrite    ExcelTableWriter.write_all, one step per call it makes,  *)
(*   SpecFormats  write_all under the number_formats a writer may be given,*)
(*   SpecSides    any sequence of add_<side>_border calls,                 *)
(*   SpecMatch    PatternMatcher.is_match on one label and one pattern,    *)
(*   SpecFind     find_match and create_position_map on lists,             *)
(*   SpecMerge    MergeManager.apply_merges on a worksheet that rejects,   *)
(*   SpecLevels   get_level_spans with a max_level argument.               *)
(***************************************************************************)
EXTENDS Integers, Sequences, FiniteSets, TLC

\* ------------------------------------------------------------------ bounds
\* most labels on one axis: (number of keys) * (number of levels) <= MaxCells
MaxCells == 9
\* largest width, height or level count of a layout built from bare dimensions
MaxDim == 3
\* largest origin offset of a layout built from bare dimensions
MaxOffset == 2

\* ------------------------------------------------------------------ values
\* Python's None (and, for pd.isna, a missing label)
NULL == "<null>"
\* the empty-string label
EMPTY == ""
\* the two ways a table writes a missing label
Blanks == {NULL, EMPTY}
\* max_level=None: the argument is omitted
NoLevel == -1
\* a call that returns without raising
NoError == "no error"

Scalar(x) == [tuple |-> FALSE, v |-> <<x>>]
TupleKey(s) == [tuple |-> TRUE, v |-> s]
\* prev = None, the initial sentinel of get_contiguous_spans
None == Scalar(NULL)

Min(a, b) == IF a < b THEN a ELSE b
RECURSIVE FlattenSeq(_)
\* the concatenation of a sequence of sequences (list.append inside nested loops)
FlattenSeq(ss) == IF ss = <<>> THEN <<>> ELSE Head(ss) \o FlattenSeq(Tail(ss))

\* ------------------------------------------------------------------ spans.py
\* mutant of Slice: the level's own component instead of the prefix up to it
SliceLevelOnly(key, n) ==
    IF key.tuple THEN TupleKey(SubSeq(key.v, Min(n, Len(key.v)), Min(n, Len(key.v))))
    ELSE key

\* idx[:n] : a prefix slice never fails, it stops at the end of the tuple
Slice(key, n) ==
    IF key.tuple THEN TupleKey(SubSeq(key.v, 1, Min(n, Len(key.v)))) ELSE key

\* mutant of SpanStarts: the first value is never taken as the start of a span
SpanStartsAfterFirst(val, prev, i) == i > 0 /\ val # prev

\* line 26, val != prev: does position i open a new span
SpanStarts(val, prev, i) == val # prev

\* mutant of SpanRecord: the span counts one position too many
SpanRecordLong(start_idx, value, end) ==
    [start |-> start_idx, value |-> value, count |-> end - start_idx + 1]

\* lines 28-32 and 38-42: the span start_idx .. end-1
SpanRecord(start_idx, value, end) ==
    [start |-> start_idx, value |-> value, count |-> end - start_idx]

RECURSIVE ScanSpans(_, _, _, _, _)
\* the loop of get_contiguous_spans from position i (0-based), then "add the last span"
ScanSpans(values, i, spans, prev, start_idx) ==
    IF i >= Len(values)
    THEN IF Len(values) > 0
         THEN Append(spans, SpanRecord(start_idx, prev, Len(values)))
         ELSE spans
    ELSE LET val == values[i + 1] IN
         IF SpanStarts(val, prev, i)
         THEN ScanSpans(values, i + 1,
                        IF i > 0
                        THEN Append(spans, SpanRecord(start_idx, prev, i))
                        ELSE spans,
                        val, i)
         ELSE ScanSpans(values, i + 1, spans, prev, start_idx)

get_contiguous_spans(values) == ScanSpans(values, 0, <<>>, None, 0)

\* get_level_spans(index, max_level): one span list per level
get_level_spans(index, max_level) ==
    IF ~index.multi
    THEN <<get_contiguous_spans(index.keys)>>
    ELSE LET n_levels == IF max_level # NoLevel THEN max_level ELSE index.nlevels
         IN [l \in 1..n_levels |->
                get_contiguous_spans(
                    [p \in 1..Len(index.keys) |-> Slice(index.keys[p], l)])]

\* ------------------------------------------------------------------ layout.py
\* CellPosition(x, y), 0-based
CellPosition(x, y) == [x |-> x, y |-> y]
excel_x(pos) == pos.x + 1
excel_y(pos) == pos.y + 1

\* BaseLayout(width, height, x_offset, y_offset)
BaseLayout(width, height, x_offset, y_offset) ==
    [width |-> width, height |-> height, position |-> CellPosition(x_offset, y_offset)]

x_start(region) == region.position.x
x_end(region) == x_start(region) + region.width - 1
y_start(region) == region.position.y
y_end(region) == y_start(region) + region.height - 1

\* BaseLayout.cell_at(x_offset, y_offset)
cell_at(region, x_offset, y_offset) ==
    CellPosition(x_start(region) + x_offset, y_start(region) + y_offset)

\* the cells of a region, as BaseLayout.iter_positions yields them
Cells(region) ==
    {cell_at(region, dx, dy) : dx \in 0..(region.width - 1), dy \in 0..(region.height - 1)}

\* TableLayout._create_column_layout
CreateColumnLayout(t) ==
    BaseLayout(t.column_width, t.column_height,
               t.position.x + t.index_width, t.position.y)

\* mutant of CreateIndexLayout: no row is left for the index names
IndexLayoutNoNamesRow(t) ==
    BaseLayout(t.index_width, t.index_height,
               t.position.x, t.position.y + t.column_height)

\* TableLayout._create_index_layout
CreateIndexLayout(t) ==
    LET additional_y_offset == IF t.has_index_names THEN 1 ELSE 0
    IN BaseLayout(t.index_width, t.index_height,
                  t.position.x, t.position.y + t.column_height + additional_y_offset)

\* mutant of CreateDataLayout: the data block is placed at the table origin
DataLayoutAtOrigin(t, columns, index) ==
    BaseLayout(columns.width, index.height, t.position.x, t.position.y)

\* TableLayout._create_data_layout
CreateDataLayout(t, columns, index) ==
    BaseLayout(columns.width, index.height, x_start(columns), y_start(index))

\* mutant of CreateIndexNamesLayout: the index-name region is always one row high
IndexNamesLayoutAlways(t, index) ==
    BaseLayout(index.width, 1, x_start(index),
               y_start(index) - (IF t.has_index_names THEN 1 ELSE 0))

\* TableLayout._create_index_names_layout
CreateIndexNamesLayout(t, index) ==
    BaseLayout(index.width, IF t.has_index_names THEN 1 ELSE 0, x_start(index),
               y_start(index) - (IF t.has_index_names THEN 1 ELSE 0))

\* TableLayout._create_column_names_layout
CreateColumnNamesLayout(t, columns) ==
    BaseLayout(IF t.has_column_names THEN 1 ELSE 0, columns.height,
               x_start(columns) - (IF t.has_column_names THEN 1 ELSE 0),
               y_start(columns))

\* TableLayout.__init__ and _init_layouts: the five regions, in dependency order
TableLayout(index_width, index_height, column_width, column_height, has_index_names, has_column_names, x_offset, y_offset) ==
    LET t == [position |-> CellPosition(x_offset, y_offset),
              index_width |-> index_width, index_height |-> index_height,
              column_width |-> column_width, column_height |-> column_height,
              has_index_names |-> has_index_names,
              has_column_names |-> has_column_names]
        columns == CreateColumnLayout(t)
        index == CreateIndexLayout(t)
    IN [position |-> t.position,
        index_width |-> index_width, index_height |-> index_height,
        column_width |-> column_width, column_height |-> column_height,
        has_index_names |-> has_index_names, has_column_names |-> has_column_names,
        columns |-> columns,
        index |-> index,
        index_names |-> CreateIndexNamesLayout(t, index),
        column_names |-> CreateColumnNamesLayout(t, columns),
        data_layout |-> CreateDataLayout(t, columns, index)]

\* TableLayout.total_width
total_width(layout) == layout.index.width + layout.data_layout.width

\* TableLayout.total_height
total_height(layout) ==
    layout.columns.height + layout.index_names.height + layout.index.height

\* TableLayout.x_start, y_start, x_end, y_end: the table's bounding rectangle
TableLayout_x_start(layout) == layout.position.x
TableLayout_y_start(layout) == layout.position.y
TableLayout_x_end(layout) == x_end(layout.data_layout)
TableLayout_y_end(layout) == y_end(layout.data_layout)

\* any(name is not None for name in names)
HasNames(axis) == \E l \in 1..Len(axis.names) : axis.names[l] # NULL

\* TableLayout.from_df(df, x_offset, y_offset)
from_df(df, x_offset, y_offset) ==
    TableLayout(df.index.nlevels, Len(df.index.keys),
                Len(df.columns.keys), df.columns.nlevels,
                HasNames(df.index), HasNames(df.columns), x_offset, y_offset)

\* ------------------------------------------------------------------ spans.py, merges
\* mutant of IsMerged: every span is merged, also a span of one position
IsMergedAny(span) == span.count > 0

\* line 109, "only merge if span is longer than 1"
IsMerged(span) == span.count > 1

\* mutant of SpanMergeRange: the range ends one position past the span
SpanMergeRangePastEnd(span, level, layout, is_row_index) ==
    IF is_row_index
    THEN LET cell_start == cell_at(layout, level, span.start)
             cell_end == cell_at(layout, level, span.start + span.count)
         IN <<excel_y(cell_start), excel_x(cell_start), excel_y(cell_end), excel_x(cell_start)>>
    ELSE LET cell_start == cell_at(layout, span.start, level)
             cell_end == cell_at(layout, span.start + span.count, level)
         IN <<excel_y(cell_start), excel_x(cell_start), excel_y(cell_start), excel_x(cell_end)>>

\* lines 110-131: the merge range (start_row, start_col, end_row, end_col) of one span
SpanMergeRange(span, level, layout, is_row_index) ==
    IF is_row_index
    THEN LET cell_start == cell_at(layout, level, span.start)
             cell_end == cell_at(layout, level, span.start + span.count - 1)
         IN <<excel_y(cell_start), excel_x(cell_start), excel_y(cell_end), excel_x(cell_start)>>
    ELSE LET cell_start == cell_at(layout, span.start, level)
             cell_end == cell_at(layout, span.start + span.count - 1, level)
         IN <<excel_y(cell_start), excel_x(cell_start), excel_y(cell_start), excel_x(cell_end)>>

\* get_merge_ranges_from_spans(spans, layout, is_row_index); level is enumerate's, 0-based
get_merge_ranges_from_spans(spans, layout, is_row_index) ==
    FlattenSeq([l \in 1..Len(spans) |->
        LET merged == SelectSeq(spans[l], IsMerged)
        IN [k \in 1..Len(merged) |-> SpanMergeRange(merged[k], l - 1, layout, is_row_index)]])

\* mutant of IsBlank: only the empty string counts as blank
IsBlankEmptyOnly(value) == value = EMPTY

\* line 172: pd.isna(value) or value == ''
IsBlank(value) == value = NULL \/ value = EMPTY

\* lines 180-188 and 197-205: the range from level first_level to level last_level of row i
EmptyMergeRange(layout, first_level, last_level, i) ==
    LET start_cell == cell_at(layout.index, first_level, i)
        end_cell == cell_at(layout.index, last_level, i)
    IN <<excel_y(start_cell), excel_x(start_cell), excel_y(end_cell), excel_x(end_cell)>>

\* no span of blanks
NoSpan == -1

RECURSIVE ScanRow(_, _, _, _, _, _, _, _)
\* lines 166-205: the scan of row i's key idx from level `level`, then the trailing span
ScanRow(idx, i, nlevels, layout, level, span_start, last_non_empty, ranges) ==
    IF level >= Len(idx)
    THEN IF span_start # NoSpan
         THEN Append(ranges, EmptyMergeRange(layout, last_non_empty, nlevels - 1, i))
         ELSE ranges
    ELSE IF IsBlank(idx[level + 1])
         THEN ScanRow(idx, i, nlevels, layout, level + 1,
                      IF span_start = NoSpan THEN level ELSE span_start,
                      last_non_empty, ranges)
         ELSE ScanRow(idx, i, nlevels, layout, level + 1, NoSpan, level,
                      IF span_start # NoSpan
                      THEN Append(ranges, EmptyMergeRange(layout, last_non_empty, level - 1, i))
                      ELSE ranges)

\* get_empty_spans(df, layout)
get_empty_spans(df, layout) ==
    IF ~df.index.multi
    THEN <<>>
    ELSE FlattenSeq([p \in 1..Len(df.index.keys) |->
            IF ~df.index.keys[p].tuple
            THEN <<>>
            ELSE ScanRow(df.index.keys[p].v, p - 1, df.index.nlevels, layout,
                         1, NoSpan, 0, <<>>)])

\* get_all_merge_ranges(df, layout), with the three lists it concatenates
get_all_merge_ranges(df, layout) ==
    LET row_spans_ == get_level_spans(df.index, NoLevel)
        column_spans_ == get_level_spans(df.columns, NoLevel)
        row_merges_ == get_merge_ranges_from_spans(row_spans_, layout.index, TRUE)
        column_merges_ == get_merge_ranges_from_spans(column_spans_, layout.columns, FALSE)
        empty_merges_ == get_empty_spans(df, layout)
    IN [row_merges |-> row_merges_, column_merges |-> column_merges_,
        empty_merges |-> empty_merges_,
        all |-> row_merges_ \o column_merges_ \o empty_merges_]

\* ------------------------------------------------------------------ borders.py
\* BorderStyle.NONE, whose value is None
NONE == "none"
\* BorderStyle.THIN
THIN == "thin"
\* BorderStyle.MEDIUM
MEDIUM == "medium"
\* a side that is not set: Side() of openpyxl's default Border(), style None
NoSide == "none"

\* add_level_borders(..., min_border_level: int = 1): the value write_all passes too
DefaultMinBorderLevel == 1

\* openpyxl's default Border(): no side set
DefaultBorder == [left |-> NoSide, right |-> NoSide, top |-> NoSide, bottom |-> NoSide]

\* a worksheet no cell of which has been touched
NoCells == [c \in {} |-> DefaultBorder]

\* worksheet.cell(row, column).border: a cell not touched yet has the default border
BorderOf(ws, cell) == IF cell \in DOMAIN ws THEN ws[cell] ELSE DefaultBorder

\* one add_<side>_border(cell_position, style) call
BorderCall(side, position, style) == [side |-> side, position |-> position, style |-> style]

\* mutant of ApplyCall: the new Border has the named side only
ApplyCallFresh(ws, call) ==
    LET cell == <<excel_y(call.position), excel_x(call.position)>>
        side == IF call.style # NONE THEN call.style ELSE NoSide
    IN (cell :> [DefaultBorder EXCEPT ![call.side] = side]) @@ ws

\* add_left_border, add_top_border, add_right_border, add_bottom_border (lines 29-107):
\* the named side is replaced, the other three are copied from the existing border
ApplyCall(ws, call) ==
    LET cell == <<excel_y(call.position), excel_x(call.position)>>
        existing_border == BorderOf(ws, cell)
        side == IF call.style # NONE THEN call.style ELSE NoSide
    IN (cell :> [existing_border EXCEPT ![call.side] = side]) @@ ws

RECURSIVE ApplyCalls(_, _)
\* the calls of a pass applied to the worksheet in order
ApplyCalls(ws, cs) == IF cs = <<>> THEN ws ELSE ApplyCalls(ApplyCall(ws, Head(cs)), Tail(cs))

\* lines 234-236: a top edge on every cell of row row_pos, x_start .. x_end of the table
RowEdge(layout, row_pos, style) ==
    [k \in 1..(TableLayout_x_end(layout) + 1 - TableLayout_x_start(layout)) |->
        BorderCall("top", CellPosition(TableLayout_x_start(layout) + k - 1, row_pos), style)]

\* lines 275-277: a left edge on every cell of column col_pos, y_start .. y_end of the table
ColumnEdge(layout, col_pos, style) ==
    [k \in 1..(TableLayout_y_end(layout) + 1 - TableLayout_y_start(layout)) |->
        BorderCall("left", CellPosition(col_pos, TableLayout_y_start(layout) + k - 1), style)]

\* lines 229 and 270, "skip first span": span['start'] > 0
IsBordered(span) == span.start > 0

\* mutant of MaxLevelToShow: the innermost levels are not left out
MaxLevelToShowAll(spans, mbl) == Len(spans)

\* lines 220 and 261: max_level_to_show = len(spans) - min_border_level
MaxLevelToShow(spans, mbl) == Len(spans) - mbl

\* _add_row_level_borders(layout, row_spans, min_border_level, border_style)
AddRowLevelBorders(layout, spans, mbl, style) ==
    FlattenSeq([l \in 1..MaxLevelToShow(spans, mbl) |->
        LET bordered == SelectSeq(spans[l], IsBordered)
        IN FlattenSeq([k \in 1..Len(bordered) |->
               RowEdge(layout, y_start(layout.index) + bordered[k].start, style)])])

\* _add_column_level_borders(layout, column_spans, min_border_level, border_style)
AddColumnLevelBorders(layout, spans, mbl, style) ==
    FlattenSeq([l \in 1..MaxLevelToShow(spans, mbl) |->
        LET bordered == SelectSeq(spans[l], IsBordered)
        IN FlattenSeq([k \in 1..Len(bordered) |->
               ColumnEdge(layout, x_start(layout.columns) + bordered[k].start, style)])])

\* add_level_borders(layout, row_spans, column_spans, min_border_level, border_style):
\* the calls it makes, rows first
add_level_borders(layout, rspans, cspans, mbl, style) ==
    (IF Len(rspans) > mbl THEN AddRowLevelBorders(layout, rspans, mbl, style) ELSE <<>>)
    \o (IF Len(cspans) > mbl THEN AddColumnLevelBorders(layout, cspans, mbl, style) ELSE <<>>)

\* mutant of add_vertical_index_border: the edge is put on the first index column
VerticalBorderOnIndex(layout, border_style) ==
    ColumnEdge(layout, x_start(layout.index), border_style)

\* add_vertical_index_border(layout, border_style): a left edge on the first data
\* column, for each row of the table
add_vertical_index_border(layout, border_style) ==
    LET data_first_col == x_start(layout.data_layout)
    IN ColumnEdge(layout, data_first_col, border_style)

\* add_horizontal_header_border(layout, border_style): a top edge on the first data
\* row, for each column of the table
add_horizontal_header_border(layout, border_style) ==
    LET data_first_row == y_start(layout.data_layout)
    IN RowEdge(layout, data_first_row, border_style)

\* add_custom_borders(layout, row_borders, column_borders, border_style): the rows
\* marked first, then the columns marked
add_custom_borders(layout, rbs, cbs, border_style) ==
    FlattenSeq([i \in 1..Len(rbs) |->
        IF rbs[i] THEN RowEdge(layout, y_start(layout.index) + i - 1, border_style)
        ELSE <<>>])
    \o FlattenSeq([j \in 1..Len(cbs) |->
        IF cbs[j] THEN ColumnEdge(layout, x_start(layout.columns) + j - 1, border_style)
        ELSE <<>>])

\* ------------------------------------------------------------------ pattern.py
\* A label is a string.  A number is written as the string of its digits and is one
\* of NumberLabels; no text label is made of digits.  NULL is None / NaN.
NumberLabels == {"1", "10"}

\* mutant of IsStr: every label is taken for text
IsStrAlways(x) == TRUE

\* isinstance(x, str)
IsStr(x) == x # NULL /\ x \notin NumberLabels

\* part.startswith(pattern)
StartsWith(part, pattern) ==
    Len(pattern) <= Len(part) /\ SubSeq(part, 1, Len(pattern)) = pattern

\* mutant of DirectMatch: a text label also matches a text pattern it starts with
DirectMatchPrefix(label, pattern) ==
    \/ label = pattern
    \/ /\ ~label.tuple
       /\ IsStr(label.v[1]) /\ IsStr(pattern.v[1])
       /\ StartsWith(label.v[1], pattern.v[1])

\* line 41, label == pattern, for a pattern that is not a tuple
DirectMatch(label, pattern) == label = pattern

RECURSIVE TupleContainsMatch(_, _)
\* _tuple_contains_match(label_tuple, pattern): the parts are tried in order
TupleContainsMatch(label_tuple, pattern) ==
    IF label_tuple = <<>> THEN FALSE
    ELSE LET part == Head(label_tuple)
         IN IF part = pattern THEN TRUE
            ELSE IF IsStr(part) /\ IsStr(pattern) /\ StartsWith(part, pattern) THEN TRUE
            ELSE TupleContainsMatch(Tail(label_tuple), pattern)

\* PatternMatcher.is_match(label, pattern)
is_match(label, pattern) ==
    IF pattern.tuple /\ label.tuple /\ label = pattern THEN TRUE
    ELSE IF ~pattern.tuple
         THEN IF DirectMatch(label, pattern) THEN TRUE
              ELSE IF label.tuple THEN TupleContainsMatch(label.v, pattern.v[1])
              ELSE FALSE
         ELSE FALSE

\* one (pattern, value) pair of a pattern list
PatternValue(pattern, value) == [pattern |-> pattern, value |-> value]

\* some number formats, the values of the patterns
Formats == <<"0.0", "0%", "0.00", "#,##0">>

RECURSIVE find_match_last(_, _)
\* mutant of find_match: the last matching pattern wins
find_match_last(label, ps) ==
    IF ps = <<>> THEN NULL
    ELSE IF is_match(label, ps[Len(ps)].pattern) THEN ps[Len(ps)].value
    ELSE find_match_last(label, SubSeq(ps, 1, Len(ps) - 1))

RECURSIVE find_match(_, _)
\* PatternMatcher.find_match(label, patterns): None if no pattern matches
find_match(label, ps) ==
    IF ps = <<>> THEN NULL
    ELSE IF is_match(label, Head(ps).pattern) THEN Head(ps).value
    ELSE find_match(label, Tail(ps))

\* PatternMatcher.create_position_map(labels, patterns)
create_position_map(ls, ps) ==
    LET result == [i \in 1..Len(ls) |-> NULL]
    IN [i \in 1..Len(ls) |->
           LET match == find_match(ls[i], ps)
           IN IF match # NULL THEN match ELSE result[i]]

\* ------------------------------------------------------------------ merge.py
\* mutant of CatchValueError: the error leaves apply_merges
PropagateValueError(st) == [st EXCEPT !.raised = "ValueError"]

\* lines 46-48, except ValueError: pass
CatchValueError(st) == st

\* one turn of the loop of apply_merges on the k-th range r: merge_cells is called,
\* and the range is tracked unless the worksheet answers with a ValueError
MergeCells(st, k, r, rej) ==
    IF st.raised # NoError THEN st
    ELSE LET called == [st EXCEPT !.submitted = Append(@, r)]
         IN IF k \in rej THEN CatchValueError(called)
            ELSE [called EXCEPT !.applied_merges = Append(@, r)]

RECURSIVE ApplyMergesFrom(_, _, _, _)
\* the loop of apply_merges from the k-th range on
ApplyMergesFrom(st, k, rs, rej) ==
    IF k > Len(rs) THEN st ELSE ApplyMergesFrom(MergeCells(st, k, rs[k], rej), k + 1, rs, rej)

\* MergeManager.apply_merges(merge_ranges), on a worksheet that rejects the ranges at
\* the list positions rej: the ranges handed to merge_cells, applied_merges, the error
apply_merges(applied, rs, rej) ==
    ApplyMergesFrom([submitted |-> <<>>, applied_merges |-> applied, raised |-> NoError],
                    1, rs, rej)

\* ------------------------------------------------------------------ table/writer.py
\* NA_REPRESENTATION
NA_REPRESENTATION == ""

\* Python's truth value of a format or a scalar pattern: None and "" are false
Truthy(x) == x # NULL /\ x # ""

\* a or b
Or(a, b) == IF Truthy(a) THEN a ELSE b

\* `if not self.number_formats`, `if not self.border_specs`: None, an empty dict or
\* list and an empty text are skipped
HasSpecs(specs) ==
    CASE specs.type = "none" -> FALSE
      [] specs.type = "split" -> TRUE
      [] specs.type = "both" -> specs.patterns # <<>>
      [] specs.type = "pattern" ->
            IF specs.pattern.tuple THEN specs.pattern.v # <<>>
            ELSE Truthy(specs.pattern.v[1])

\* number_formats = {'rows': ..., 'columns': ...}, either key may be missing
SplitSpecs(has_rows, rows, has_columns, columns) ==
    [type |-> "split", has_rows |-> has_rows, rows |-> rows,
     has_columns |-> has_columns, columns |-> columns]

\* number_formats = {pattern: format, ...}, applied to both axes
BothSpecs(ps) == [type |-> "both", patterns |-> ps]

\* number_formats = pattern (not a dict): the default format where it matches
PatternSpecs(pattern) == [type |-> "pattern", pattern |-> pattern]

\* lines 131-134 and the like: the format of each position of an axis
FormatsOf(axis, ps) ==
    [i \in 1..Len(axis.keys) |->
        LET match == find_match(axis.keys[i], ps)
        IN IF match # NULL THEN match ELSE NULL]

\* lines 103-104: [None] * n
NoFormats(axis) == [i \in 1..Len(axis.keys) |-> NULL]

\* _process_number_formats: row_formats and column_formats
ProcessNumberFormats(table, nf, default) ==
    IF ~HasSpecs(nf)
    THEN [row_formats |-> NoFormats(table.index), column_formats |-> NoFormats(table.columns)]
    ELSE CASE nf.type = "split" ->
                [row_formats |-> IF nf.has_rows THEN FormatsOf(table.index, nf.rows)
                                 ELSE NoFormats(table.index),
                 column_formats |-> IF nf.has_columns THEN FormatsOf(table.columns, nf.columns)
                                    ELSE NoFormats(table.columns)]
           [] nf.type = "both" ->
                [row_formats |-> FormatsOf(table.index, nf.patterns),
                 column_formats |-> FormatsOf(table.columns, nf.patterns)]
           [] nf.type = "pattern" ->
                [row_formats |-> [i \in 1..Len(table.index.keys) |->
                     IF is_match(table.index.keys[i], nf.pattern) THEN default ELSE NULL],
                 column_formats |-> [j \in 1..Len(table.columns.keys) |->
                     IF is_match(table.columns.keys[j], nf.pattern) THEN default ELSE NULL]]

\* lines 195-199 and the like: does a position's key match one of the patterns
FlagsOf(axis, ps) ==
    [i \in 1..Len(axis.keys) |-> \E k \in 1..Len(ps) : is_match(axis.keys[i], ps[k])]

\* lines 105-106: [False] * n
NoFlags(axis) == [i \in 1..Len(axis.keys) |-> FALSE]

\* _process_border_specs: row_borders and column_borders; the patterns of a dict
\* without 'rows' / 'columns' are its keys, those of a list its entries
ProcessBorderSpecs(table, bs) ==
    IF ~HasSpecs(bs)
    THEN [row_borders |-> NoFlags(table.index), column_borders |-> NoFlags(table.columns)]
    ELSE CASE bs.type = "split" ->
                [row_borders |-> IF bs.has_rows THEN FlagsOf(table.index, bs.rows)
                                 ELSE NoFlags(table.index),
                 column_borders |-> IF bs.has_columns THEN FlagsOf(table.columns, bs.columns)
                                    ELSE NoFlags(table.columns)]
           [] bs.type = "both" ->
                [row_borders |-> FlagsOf(table.index, bs.patterns),
                 column_borders |-> FlagsOf(table.columns, bs.patterns)]
           [] bs.type = "pattern" ->
                [row_borders |-> FlagsOf(table.index, <<bs.pattern>>),
                 column_borders |-> FlagsOf(table.columns, <<bs.pattern>>)]

\* _handle_na_value(value)
handle_na_value(value) == IF value = NULL THEN NA_REPRESENTATION ELSE value

\* isinstance(value, (int, float, np.number))
IsNumber(value) == value \in NumberLabels

\* _write_cell(position, value, style, number_format): the worksheet.cell(...) call
\* of write_<part>; the cell's number_format is set only for a number and a format
\* that is not empty
write_cell(part, position, value, style, number_format) ==
    LET written == handle_na_value(value)
    IN [op |-> "cell", part |-> part, position |-> position,
        value |-> written, style |-> style,
        number_format |-> IF Truthy(number_format) /\ IsNumber(written)
                          THEN number_format ELSE NULL]

\* df.iloc[i, j]: the data values are not told apart, every data cell holds the number 1
iloc(table, i, j) == "1"

\* mutant of HeaderCell: a tuple key is written at level 0 only, too
HeaderCellTopLevel(part, key, level, position, style) ==
    IF level > 0 THEN <<>>
    ELSE <<write_cell(part, position, key.v[1], style, NULL)>>

\* write_column_headers / write_index_values: one header cell; a key that is not a
\* tuple is written at level 0 only
HeaderCell(part, key, level, position, style) ==
    IF key.tuple THEN <<write_cell(part, position, key.v[level + 1], style, NULL)>>
    ELSE IF level > 0 THEN <<>>
    ELSE <<write_cell(part, position, key.v[1], style, NULL)>>

\* write_column_headers(), in the order of iter_column_positions
write_column_headers(table, lay) ==
    FlattenSeq([j \in 1..lay.columns.width |->
        FlattenSeq([level \in 1..lay.columns.height |->
            HeaderCell("column_headers", table.columns.keys[j], level - 1,
                       CellPosition(x_start(lay.columns) + j - 1,
                                    y_start(lay.columns) + level - 1),
                       "COLUMN_STYLE")])])

\* write_index_values(), in the order of iter_index_positions
write_index_values(table, lay) ==
    FlattenSeq([i \in 1..lay.index.height |->
        FlattenSeq([level \in 1..lay.index.width |->
            HeaderCell("index_values", table.index.keys[i], level - 1,
                       CellPosition(x_start(lay.index) + level - 1,
                                    y_start(lay.index) + i - 1),
                       "INDEX_STYLE")])])

\* write_column_names(), in the order of iter_column_name_positions
write_column_names(table, lay) ==
    IF ~lay.has_column_names THEN <<>>
    ELSE FlattenSeq([level \in 1..lay.column_names.height |->
            LET name == table.columns.names[level]
            IN IF name # NULL
               THEN <<write_cell("column_names",
                                 CellPosition(x_start(lay.column_names),
                                              y_start(lay.column_names) + level - 1),
                                 name, "COLUMN_NAMES_STYLE", NULL)>>
               ELSE <<>>])

\* write_index_names(), in the order of iter_index_name_positions
write_index_names(table, lay) ==
    IF ~lay.has_index_names THEN <<>>
    ELSE FlattenSeq([level \in 1..lay.index_names.width |->
            LET name == table.index.names[level]
            IN IF name # NULL
               THEN <<write_cell("index_names",
                                 CellPosition(x_start(lay.index_names) + level - 1,
                                              y_start(lay.index_names)),
                                 name, "INDEX_NAMES_STYLE", NULL)>>
               ELSE <<>>])

\* line 342: number_format = row_format or col_format or self.default_number_format
NumberFormat(row_format, col_format, default) == Or(Or(row_format, col_format), default)

\* write_data(), in the order of iter_data_positions
write_data(table, lay, rfs, cfs, default) ==
    FlattenSeq([i \in 1..lay.index.height |->
        [j \in 1..lay.columns.width |->
            write_cell("data",
                       CellPosition(x_start(lay.data_layout) + j - 1,
                                    y_start(lay.data_layout) + i - 1),
                       iloc(table, i - 1, j - 1), NULL,
                       NumberFormat(rfs[i], cfs[j], default))]])

\* a merge_cells call and an add_<side>_border call, as the worksheet receives them
MergeOp(r) == [op |-> "merge", part |-> "merges", range |-> r]
BorderOp(part, call) == [op |-> "border", part |-> part, call |-> call]
BorderOps(part, cs) == [k \in 1..Len(cs) |-> BorderOp(part, cs[k])]

\* ------------------------------------------------------------------ elements/text.py
\* a style dict: the dict it is ("default", "title", "subtitle", "caption" for the class
\* attributes, "custom" for a dict of the caller) and whether it holds "wrap_text": True
Style(base, wrap_text) == [base |-> base, wrap_text |-> wrap_text]

\* the keys of `presets` in _get_preset_style
PresetNames == {"default", "title", "subtitle", "caption"}

\* DEFAULT_STYLE, TITLE_STYLE, SUBTITLE_STYLE, CAPTION_STYLE as the class body defines
\* them: none has the key "wrap_text"
ClassPresets == [p \in PresetNames |-> Style(p, FALSE)]

\* ------------------------------------------------------------------ inputs
\* the labels of a table whose missing labels are written as blank
Labels(blank) == {"A", blank}

\* the keys of an axis of n levels: scalars on a flat axis, n-tuples on a hierarchical one
AxisKeys(multi, n, blank) ==
    IF multi THEN {TupleKey(t) : t \in [1..n -> Labels(blank)]}
    ELSE {Scalar(x) : x \in Labels(blank)}

\* an axis: a pd.Index (multi = FALSE, one level) or a pd.MultiIndex of n levels
Axis(multi, n, names, keys) ==
    [multi |-> multi, nlevels |-> n, names |-> names, keys |-> keys]

\* a flat axis has one level, a hierarchical axis has two or more
IsDepth(multi, n) == IF multi THEN n >= 2 ELSE n = 1

\* level names: none set
Unnamed(n) == [l \in 1..n |-> NULL]
\* level names: all set
Named(n) == [l \in 1..n |-> "name"]

\* the axis that stays the same while the other one varies: two labels, one level
PlainAxis == Axis(FALSE, 1, Unnamed(1), <<Scalar("A"), Scalar("B")>>)

\* ------------------------------------------------------------------ state
VARIABLES
    pc,             \* where the run is
    args,           \* the arguments of a TableLayout built from bare dimensions
    df,             \* the table
    layout,         \* its TableLayout
    row_spans,      \* get_level_spans(df.index)
    column_spans,   \* get_level_spans(df.columns)
    row_merges,     \* get_merge_ranges_from_spans of the row spans
    column_merges,  \* get_merge_ranges_from_spans of the column spans
    empty_merges,   \* get_empty_spans
    merge_ranges,   \* get_all_merge_ranges
    min_border_level, \* the min_border_level argument of add_level_borders
    ws_border,      \* the worksheet: the border of every cell touched so far
    calls,          \* the add_*_border calls made so far, in order
    max_level,      \* the max_level argument of get_level_spans
    labels,         \* PatternMatcher: the labels looked up
    patterns,       \* PatternMatcher: the (pattern, value) pairs, in list order
    matches,        \* is_match(labels[i], patterns[j].pattern), by i and j
    found,          \* find_match(labels[i], patterns), by i
    position_map,   \* create_position_map(labels, patterns)
    number_formats, \* ExcelTableWriter.number_formats
    default_number_format, \* ExcelTableWriter.default_number_format
    border_specs,   \* ExcelTableWriter.border_specs
    row_formats,    \* ExcelTableWriter.row_formats
    column_formats, \* ExcelTableWriter.column_formats
    row_borders,    \* ExcelTableWriter.row_borders
    column_borders, \* ExcelTableWriter.column_borders
    ops,            \* the operations the worksheet has received, in order
    applied_merges, \* MergeManager.applied_merges
    rejected,       \* the merge ranges the worksheet answers with a ValueError
    raised,         \* the error that left the last call, if any
    elements,       \* WorksheetManager.elements, each with what its render has sent
    presets         \* the style dicts of TextElement's class attributes

\* PatternMatcher's arguments and results
matcher == <<labels, patterns, matches, found, position_map>>

\* the formatting fields of an ExcelTableWriter
writer == <<number_formats, default_number_format, border_specs, row_formats,
            column_formats, row_borders, column_borders>>

\* the worksheet's operation log and the merge manager
sinks == <<ops, applied_merges, rejected, raised>>

\* the elements of a WorksheetManager and the class-level style presets
manager == <<elements, presets>>

\* what the span, layout and level-border runs leave alone
others == <<max_level, matcher, writer, sinks, manager>>

vars == <<pc, args, df, layout, row_spans, column_spans, row_merges, column_merges,
          empty_merges, merge_ranges, min_border_level, ws_border, calls, others>>

\* the worksheet's borders and the arguments of the border passes
sheet == <<min_border_level, ws_border, calls>>

\* what get_level_spans and get_all_merge_ranges return
computed == <<row_spans, column_spans, row_merges, column_merges, empty_merges, merge_ranges>>

\* nothing computed yet
NothingComputed ==
    /\ row_spans = <<>>
    /\ column_spans = <<>>
    /\ row_merges = <<>>
    /\ column_merges = <<>>
    /\ empty_merges = <<>>
    /\ merge_ranges = <<>>

\* a fresh worksheet, and the min_border_level that write_all passes
FreshSheet ==
    /\ min_border_level = DefaultMinBorderLevel
    /\ ws_border = NoCells
    /\ calls = <<>>

\* the arguments of TableLayout(...)
LayoutArgs(iw, ih, cw, ch, hin, hcn, x, y) ==
    [index_width |-> iw, index_height |-> ih, column_width |-> cw, column_height |-> ch,
     has_index_names |-> hin, has_column_names |-> hcn, x_offset |-> x, y_offset |-> y]

NoArgs == LayoutArgs(0, 0, 0, 0, FALSE, FALSE, 0, 0)

\* a layout not built yet
NoLayout == TableLayout(0, 0, 0, 0, FALSE, FALSE, 0, 0)
NoTable == [index |-> PlainAxis, columns |-> PlainAxis]

\* number_formats=None, border_specs=None
NoSpecs == [type |-> "none"]

\* no PatternMatcher call made
NoMatcher ==
    /\ labels = <<>>
    /\ patterns = <<>>
    /\ matches = <<>>
    /\ found = <<>>
    /\ position_map = <<>>

\* a writer constructed without number formats and border specs
PlainWriter ==
    /\ number_formats = NoSpecs
    /\ default_number_format = NULL
    /\ border_specs = NoSpecs
    /\ row_formats = <<>>
    /\ column_formats = <<>>
    /\ row_borders = <<>>
    /\ column_borders = <<>>

\* a worksheet that has received nothing, a merge manager that has applied nothing
FreshSinks ==
    /\ ops = <<>>
    /\ applied_merges = <<>>
    /\ rejected = {}
    /\ raised = NoError

\* no WorksheetManager, and the style presets as the class body defines them
NoManager ==
    /\ elements = <<>>
    /\ presets = ClassPresets

\* the state the span, layout and level-border runs leave alone
Untouched ==
    /\ NoManager
    /\ max_level = NoLevel
    /\ NoMatcher
    /\ PlainWriter
    /\ FreshSinks

\* ------------------------------------------------------------------ spans and merges
\* a table in which one axis varies and the other is plain, and its layout at the
\* origin (1, 2); nothing computed yet
InitSpans ==
    /\ pc = "ready"
    /\ \E multi \in BOOLEAN, n \in 1..MaxCells, len \in 0..MaxCells, blank \in Blanks :
          /\ IsDepth(multi, n)
          /\ n * len <= MaxCells
          /\ \E keys \in [1..len -> AxisKeys(multi, n, blank)], is_row \in BOOLEAN :
                df = IF is_row
                     THEN [index |-> Axis(multi, n, Unnamed(n), keys), columns |-> PlainAxis]
                     ELSE [index |-> PlainAxis, columns |-> Axis(multi, n, Unnamed(n), keys)]
    /\ layout = from_df(df, 1, 2)
    /\ args = NoArgs
    /\ NothingComputed
    /\ FreshSheet
    /\ Untouched

\* writer.py 266-267: the spans of both axes
CallGetLevelSpans ==
    /\ pc = "ready"
    /\ row_spans' = get_level_spans(df.index, NoLevel)
    /\ column_spans' = get_level_spans(df.columns, NoLevel)
    /\ pc' = "spans"
    /\ UNCHANGED <<args, df, layout, row_merges, column_merges, empty_merges, merge_ranges, sheet,
                   others>>

\* writer.py 262: the merge ranges of the table
CallGetAllMergeRanges ==
    /\ pc = "spans"
    /\ LET r == get_all_merge_ranges(df, layout)
       IN /\ row_merges' = r.row_merges
          /\ column_merges' = r.column_merges
          /\ empty_merges' = r.empty_merges
          /\ merge_ranges' = r.all
    /\ pc' = "merged"
    /\ UNCHANGED <<args, df, layout, row_spans, column_spans, sheet, others>>

NextSpans == CallGetLevelSpans \/ CallGetAllMergeRanges

SpecSpans == InitSpans /\ [][NextSpans]_vars

\* ------------------------------------------------------------------ layouts
\* the arguments of a layout built from bare dimensions: at least one level on each
\* axis, any number of rows and columns from zero, either flag, any origin
InitLayout ==
    /\ pc = "new"
    /\ \E iw, ch \in 1..MaxDim, ih, cw \in 0..MaxDim, hin, hcn \in BOOLEAN,
          x, y \in 0..MaxOffset :
            args = LayoutArgs(iw, ih, cw, ch, hin, hcn, x, y)
    /\ layout = NoLayout
    /\ df = NoTable
    /\ NothingComputed
    /\ FreshSheet
    /\ Untouched

\* TableLayout(index_width, ..., y_offset): the five regions are computed once
BuildLayout ==
    /\ pc = "new"
    /\ layout' = TableLayout(args.index_width, args.index_height, args.column_width,
                             args.column_height, args.has_index_names,
                             args.has_column_names, args.x_offset, args.y_offset)
    /\ pc' = "built"
    /\ UNCHANGED <<args, df, computed, sheet, others>>

NextLayout == BuildLayout

SpecLayout == InitLayout /\ [][NextLayout]_vars

\* ------------------------------------------------------------------ level borders
\* largest min_border_level tried
MaxMinBorderLevel == 2

\* the axis that stays the same while the other one varies: two levels, three keys
TwoLevelAxis(names) ==
    Axis(TRUE, 2, names,
         <<TupleKey(<<"A", "A">>), TupleKey(<<"A", "B">>), TupleKey(<<"B", "A">>)>>)

\* a table in which one axis varies and the other has two levels, with or without index
\* names, its layout at the origin (1, 2), a fresh worksheet and any min_border_level
InitBorders ==
    /\ pc = "ready"
    /\ \E multi \in BOOLEAN, n \in 1..MaxCells, len \in 0..MaxCells :
          /\ IsDepth(multi, n)
          /\ n * len <= MaxCells
          /\ \E keys \in [1..len -> AxisKeys(multi, n, EMPTY)], is_row, hin \in BOOLEAN :
                df = IF is_row
                     THEN [index |-> Axis(multi, n, IF hin THEN Named(n) ELSE Unnamed(n), keys),
                           columns |-> TwoLevelAxis(Unnamed(2))]
                     ELSE [index |-> TwoLevelAxis(IF hin THEN Named(2) ELSE Unnamed(2)),
                           columns |-> Axis(multi, n, Unnamed(n), keys)]
    /\ layout = from_df(df, 1, 2)
    /\ args = NoArgs
    /\ NothingComputed
    /\ min_border_level \in 0..MaxMinBorderLevel
    /\ ws_border = NoCells
    /\ calls = <<>>
    /\ Untouched

\* border_manager.add_level_borders(layout, row_spans, column_spans, min_border_level)
\* with the default border_style, BorderStyle.THIN
AddLevelBorders ==
    /\ pc = "spans"
    /\ LET cs == add_level_borders(layout, row_spans, column_spans, min_border_level, THIN)
       IN /\ calls' = calls \o cs
          /\ ws_border' = ApplyCalls(ws_border, cs)
    /\ pc' = "level_borders"
    /\ UNCHANGED <<args, df, layout, computed, min_border_level, others>>

NextBorders == CallGetLevelSpans \/ AddLevelBorders

SpecBorders == InitBorders /\ [][NextBorders]_vars

\* ------------------------------------------------------------------ write_all
\* most labels on the varied axis of a table that is written out
MaxWriteCells == 5

\* ExcelTableWriter(df, worksheet, 1, 2, default_number_format, number_formats,
\* border_specs): the state after __init__
Constructed(table, nf, default, bs) ==
    /\ df = table
    /\ layout = from_df(table, 1, 2)
    /\ number_formats = nf
    /\ default_number_format = default
    /\ border_specs = bs
    /\ row_formats = ProcessNumberFormats(table, nf, default).row_formats
    /\ column_formats = ProcessNumberFormats(table, nf, default).column_formats
    /\ row_borders = ProcessBorderSpecs(table, bs).row_borders
    /\ column_borders = ProcessBorderSpecs(table, bs).column_borders
    /\ args = NoArgs
    /\ NothingComputed
    /\ FreshSheet
    /\ FreshSinks
    /\ max_level = NoLevel
    /\ NoMatcher
    /\ NoManager

\* a writer for a table in which one axis varies and the other has two levels, with or
\* without names on either axis, with or without a border pattern, on a fresh worksheet
InitWrite ==
    /\ pc = "init"
    /\ \E multi \in BOOLEAN, n \in 1..MaxWriteCells, len \in 0..MaxWriteCells, blank \in Blanks :
          /\ IsDepth(multi, n)
          /\ n * len <= MaxWriteCells
          /\ \E keys \in [1..len -> AxisKeys(multi, n, blank)], is_row, hin, hcn \in BOOLEAN,
                bs \in {NoSpecs, PatternSpecs(Scalar("A"))} :
                Constructed(
                    IF is_row
                    THEN [index |-> Axis(multi, n, IF hin THEN Named(n) ELSE Unnamed(n), keys),
                          columns |-> TwoLevelAxis(IF hcn THEN Named(2) ELSE Unnamed(2))]
                    ELSE [index |-> TwoLevelAxis(IF hin THEN Named(2) ELSE Unnamed(2)),
                          columns |-> Axis(multi, n, IF hcn THEN Named(n) ELSE Unnamed(n), keys)],
                    NoSpecs, NULL, bs)

\* what a step that only writes cells leaves alone
cells_frame == <<args, df, layout, computed, sheet, max_level, matcher, writer, manager,
                 applied_merges, rejected, raised>>

\* line 250: self.write_column_headers()
WriteColumnHeaders ==
    /\ pc = "init"
    /\ ops' = ops \o write_column_headers(df, layout)
    /\ pc' = "column_headers"
    /\ UNCHANGED cells_frame

\* line 251: self.write_index_values()
WriteIndexValues ==
    /\ pc = "column_headers"
    /\ ops' = ops \o write_index_values(df, layout)
    /\ pc' = "index_values"
    /\ UNCHANGED cells_frame

\* lines 253-254: if self.layout.has_column_names: self.write_column_names()
WriteColumnNames ==
    /\ pc = "index_values"
    /\ ops' = IF layout.has_column_names THEN ops \o write_column_names(df, layout) ELSE ops
    /\ pc' = "column_names"
    /\ UNCHANGED cells_frame

\* lines 256-257: if self.layout.has_index_names: self.write_index_names()
WriteIndexNames ==
    /\ pc = "column_names"
    /\ ops' = IF layout.has_index_names THEN ops \o write_index_names(df, layout) ELSE ops
    /\ pc' = "index_names"
    /\ UNCHANGED cells_frame

\* mutant of WriteData: the merges are requested before the data body is written
WriteDataAfterMerges ==
    /\ pc = "index_names"
    /\ LET rs == get_all_merge_ranges(df, layout).all
       IN ops' = ops \o [k \in 1..Len(rs) |-> MergeOp(rs[k])]
                     \o write_data(df, layout, row_formats, column_formats,
                                   default_number_format)
    /\ pc' = "data"
    /\ UNCHANGED cells_frame

\* line 259: self.write_data()
WriteData ==
    /\ pc = "index_names"
    /\ ops' = ops \o write_data(df, layout, row_formats, column_formats, default_number_format)
    /\ pc' = "data"
    /\ UNCHANGED cells_frame

\* lines 262-263: get_all_merge_ranges and merge_manager.apply_merges
ApplyMerges ==
    /\ pc = "data"
    /\ LET r == get_all_merge_ranges(df, layout)
           m == apply_merges(applied_merges, r.all, rejected)
       IN /\ row_merges' = r.row_merges
          /\ column_merges' = r.column_merges
          /\ empty_merges' = r.empty_merges
          /\ merge_ranges' = r.all
          /\ ops' = ops \o [k \in 1..Len(m.submitted) |-> MergeOp(m.submitted[k])]
          /\ applied_merges' = m.applied_merges
          /\ raised' = m.raised
    /\ pc' = "merges"
    /\ UNCHANGED <<args, df, layout, row_spans, column_spans, sheet, max_level, matcher,
                   writer, rejected, manager>>

\* lines 266-267: the spans for the level borders
LevelSpans ==
    /\ pc = "merges"
    /\ raised = NoError
    /\ row_spans' = get_level_spans(df.index, NoLevel)
    /\ column_spans' = get_level_spans(df.columns, NoLevel)
    /\ pc' = "level_spans"
    /\ UNCHANGED <<args, df, layout, row_merges, column_merges, empty_merges, merge_ranges,
                   sheet, others>>

\* a border pass: its add_<side>_border calls reach the worksheet in order
BorderPass(part, cs) ==
    /\ calls' = calls \o cs
    /\ ws_border' = ApplyCalls(ws_border, cs)
    /\ ops' = ops \o BorderOps(part, cs)
    /\ pc' = part
    /\ UNCHANGED <<args, df, layout, computed, min_border_level, max_level, matcher, writer,
                   applied_merges, rejected, raised, manager>>

\* line 270: add_vertical_index_border(layout), border_style MEDIUM by default
VerticalIndexBorder ==
    /\ pc = "level_spans"
    /\ BorderPass("vertical_index_border", add_vertical_index_border(layout, MEDIUM))

\* line 271: add_horizontal_header_border(layout), border_style MEDIUM by default
HorizontalHeaderBorder ==
    /\ pc = "vertical_index_border"
    /\ BorderPass("horizontal_header_border", add_horizontal_header_border(layout, MEDIUM))

\* lines 272-277: add_level_borders(layout, row_spans, column_spans, min_border_level=1)
LevelBorders ==
    /\ pc = "horizontal_header_border"
    /\ BorderPass("level_borders",
                  add_level_borders(layout, row_spans, column_spans, min_border_level, THIN))

\* lines 278-282: add_custom_borders(layout, row_borders, column_borders)
CustomBorders ==
    /\ pc = "level_borders"
    /\ BorderPass("custom_borders", add_custom_borders(layout, row_borders, column_borders, THIN))

\* write_all(), one step per call it makes
NextWrite ==
    \/ WriteColumnHeaders
    \/ WriteIndexValues
    \/ WriteColumnNames
    \/ WriteIndexNames
    \/ WriteData
    \/ ApplyMerges
    \/ LevelSpans
    \/ VerticalIndexBorder
    \/ HorizontalHeaderBorder
    \/ LevelBorders
    \/ CustomBorders

SpecWrite == InitWrite /\ [][NextWrite]_vars

\* ------------------------------------------------------------------ number formats
\* most (pattern, format) pairs in one pattern list of number_formats
MaxFormatPatterns == 1

\* the formats of the patterns: two number formats and the empty text
PatternFormats == {Formats[1], Formats[2], ""}

\* the pattern lists of number_formats: patterns "A" and "B" with any format
FormatPatterns ==
    UNION {[1..m -> {PatternValue(Scalar(x), f) : x \in {"A", "B"}, f \in PatternFormats}] :
           m \in 0..MaxFormatPatterns}

\* the number_formats arguments tried: none, by axis, for both axes, a bare pattern
NumberFormatSpecs ==
    {NoSpecs}
    \cup {nf \in {SplitSpecs(hr, rows, hc, columns) :
                     hr \in BOOLEAN, rows \in FormatPatterns,
                     hc \in BOOLEAN, columns \in FormatPatterns} :
              /\ ~nf.has_rows => nf.rows = <<>>
              /\ ~nf.has_columns => nf.columns = <<>>}
    \cup {BothSpecs(ps) : ps \in FormatPatterns}
    \cup {PatternSpecs(Scalar(x)) : x \in {"A", "B", ""}}

\* a writer for a table of rows "A", "B" and two-level columns, with any of the
\* number_formats and with or without a default number format
InitFormats ==
    /\ pc = "init"
    /\ \E nf \in NumberFormatSpecs, default \in {NULL, Formats[4]} :
          Constructed([index |-> Axis(FALSE, 1, Unnamed(1), <<Scalar("A"), Scalar("B")>>),
                       columns |-> TwoLevelAxis(Unnamed(2))],
                      nf, default, NoSpecs)

SpecFormats == InitFormats /\ [][NextWrite]_vars

\* ------------------------------------------------------------------ apply_merges
\* most merge ranges in the list handed to apply_merges
MaxRanges == 3

\* the merge ranges of the lists: a column of two cells, a row of two cells that
\* shares a cell with it, and a row of two cells below
SomeRanges == {<<1, 1, 2, 1>>, <<1, 1, 1, 2>>, <<2, 2, 2, 3>>}

\* a MergeManager on a fresh worksheet, a list of merge ranges in which a range may
\* occur again, and the list positions at which merge_cells raises ValueError
InitMerge ==
    /\ pc = "ready"
    /\ \E n \in 0..MaxRanges :
          /\ merge_ranges \in [1..n -> SomeRanges]
          /\ rejected \in SUBSET (1..n)
    /\ row_spans = <<>> /\ column_spans = <<>>
    /\ row_merges = <<>> /\ column_merges = <<>> /\ empty_merges = <<>>
    /\ ops = <<>>
    /\ applied_merges = <<>>
    /\ raised = NoError
    /\ df = NoTable
    /\ layout = NoLayout
    /\ args = NoArgs
    /\ FreshSheet
    /\ max_level = NoLevel
    /\ NoMatcher
    /\ PlainWriter
    /\ NoManager

\* merge_manager.apply_merges(merge_ranges)
CallApplyMerges ==
    /\ pc = "ready"
    /\ LET m == apply_merges(applied_merges, merge_ranges, rejected)
       IN /\ ops' = ops \o [k \in 1..Len(m.submitted) |-> MergeOp(m.submitted[k])]
          /\ applied_merges' = m.applied_merges
          /\ raised' = m.raised
    /\ pc' = "applied"
    /\ UNCHANGED <<args, df, layout, computed, sheet, max_level, matcher, writer, rejected,
                   manager>>

NextMerge == CallApplyMerges

SpecMerge == InitMerge /\ [][NextMerge]_vars

\* ------------------------------------------------------------------ max_level
\* most labels on the axis handed to get_level_spans with a max_level
MaxLevelCells == 6

\* an axis and a max_level argument: omitted, or any level up to two past the depth
InitLevels ==
    /\ pc = "ready"
    /\ \E multi \in BOOLEAN, n \in 1..MaxLevelCells, len \in 0..MaxLevelCells :
          /\ IsDepth(multi, n)
          /\ n * len <= MaxLevelCells
          /\ max_level \in {NoLevel} \cup 0..(n + 2)
          /\ \E keys \in [1..len -> AxisKeys(multi, n, EMPTY)] :
                df = [index |-> Axis(multi, n, Unnamed(n), keys), columns |-> PlainAxis]
    /\ layout = from_df(df, 1, 2)
    /\ args = NoArgs
    /\ NothingComputed
    /\ FreshSheet
    /\ NoMatcher
    /\ PlainWriter
    /\ FreshSinks
    /\ NoManager

\* spans.get_level_spans(df.index, max_level): no statement of it raises, and a slice
\* past the end of a tuple is cut short, so the call always returns
CallGetLevelSpansUpTo ==
    /\ pc = "ready"
    /\ row_spans' = get_level_spans(df.index, max_level)
    /\ raised' = NoError
    /\ pc' = "levels"
    /\ UNCHANGED <<args, df, layout, column_spans, row_merges, column_merges, empty_merges,
                   merge_ranges, sheet, max_level, matcher, writer, ops, applied_merges,
                   rejected, manager>>

NextLevels == CallGetLevelSpansUpTo

SpecLevels == InitLevels /\ [][NextLevels]_vars

\* ------------------------------------------------------------------ single sides
\* most add_<side>_border calls in a run
MaxCalls == 3

\* the cells the calls address
SheetPositions == {CellPosition(0, 0), CellPosition(1, 0)}

\* the styles the calls pass
Styles == {THIN, MEDIUM, NONE}

\* a BorderManager on a fresh worksheet
InitSides ==
    /\ pc = "sides"
    /\ df = NoTable
    /\ layout = NoLayout
    /\ args = NoArgs
    /\ NothingComputed
    /\ FreshSheet
    /\ Untouched

\* one add_<side>_border(cell_position, style) call
AddSideBorder(side) ==
    /\ pc = "sides"
    /\ Len(calls) < MaxCalls
    /\ \E position \in SheetPositions, style \in Styles :
          LET call == BorderCall(side, position, style)
          IN /\ calls' = Append(calls, call)
             /\ ws_border' = ApplyCall(ws_border, call)
    /\ UNCHANGED <<pc, args, df, layout, computed, min_border_level, others>>

add_left_border == AddSideBorder("left")
add_top_border == AddSideBorder("top")
add_right_border == AddSideBorder("right")
add_bottom_border == AddSideBorder("bottom")

NextSides == add_left_border \/ add_top_border \/ add_right_border \/ add_bottom_border

SpecSides == InitSides /\ [][NextSides]_vars

\* ------------------------------------------------------------------ is_match
\* most components of a tuple label or tuple pattern
MaxParts == 2

\* the texts and numbers a pattern is made of
MatchLabels == {"EU", "EU-total", "", "1", "10"}

\* scalars and tuples of up to MaxParts components
MatchValues(ls) ==
    {Scalar(x) : x \in ls} \cup
    UNION {{TupleKey(t) : t \in [1..n -> ls]} : n \in 1..MaxParts}

\* what the PatternMatcher runs leave alone
matcher_frame == <<args, df, layout, computed, sheet, max_level, writer, sinks, manager>>

\* nothing but a PatternMatcher call
NoWriter ==
    /\ df = NoTable
    /\ layout = NoLayout
    /\ args = NoArgs
    /\ NothingComputed
    /\ FreshSheet
    /\ max_level = NoLevel
    /\ PlainWriter
    /\ FreshSinks
    /\ NoManager

\* one label, which may hold a missing component, and one pattern
InitMatch ==
    /\ pc = "ready"
    /\ \E label \in MatchValues(MatchLabels \cup {NULL}), pattern \in MatchValues(MatchLabels) :
          /\ labels = <<label>>
          /\ patterns = <<PatternValue(pattern, Formats[1])>>
    /\ matches = <<>>
    /\ found = <<>>
    /\ position_map = <<>>
    /\ NoWriter

\* PatternMatcher.is_match(label, pattern) for each label and pattern
CallIsMatch ==
    /\ pc = "ready"
    /\ matches' = [i \in 1..Len(labels) |->
                      [j \in 1..Len(patterns) |-> is_match(labels[i], patterns[j].pattern)]]
    /\ pc' = "matched"
    /\ UNCHANGED <<labels, patterns, found, position_map, matcher_frame>>

NextMatch == CallIsMatch

SpecMatch == InitMatch /\ [][NextMatch]_vars

\* ------------------------------------------------------------------ find_match
\* most labels looked up, most (pattern, value) pairs in the list
MaxLabels == 2
MaxPatterns == 2

\* the labels and patterns of the lookups: scalars and pairs of two texts one of which
\* starts with the other
FindValues ==
    {Scalar(x) : x \in {"EU", "EU-total"}} \cup
    {TupleKey(<<x, y>>) : x, y \in {"EU", "EU-total"}}

\* up to MaxLabels labels and up to MaxPatterns patterns, the j-th with the j-th format
InitFind ==
    /\ pc = "ready"
    /\ \E n \in 0..MaxLabels, m \in 0..MaxPatterns :
          \E ls \in [1..n -> FindValues \cup {Scalar(NULL)}], ps \in [1..m -> FindValues] :
             /\ labels = ls
             /\ patterns = [j \in 1..m |-> PatternValue(ps[j], Formats[j])]
    /\ matches = <<>>
    /\ found = <<>>
    /\ position_map = <<>>
    /\ NoWriter

\* PatternMatcher.find_match(label, patterns) for each label
CallFindMatch ==
    /\ pc = "ready"
    /\ found' = [i \in 1..Len(labels) |-> find_match(labels[i], patterns)]
    /\ pc' = "found"
    /\ UNCHANGED <<labels, patterns, matches, position_map, matcher_frame>>

\* PatternMatcher.create_position_map(labels, patterns)
CallCreatePositionMap ==
    /\ pc = "found"
    /\ position_map' = create_position_map(labels, patterns)
    /\ pc' = "mapped"
    /\ UNCHANGED <<labels, patterns, matches, found, matcher_frame>>

NextFind == CallFindMatch \/ CallCreatePositionMap

SpecFind == InitFind /\ [][NextFind]_vars

\* ------------------------------------------------------------------ claims on spans
\* the axis whose spans are in `spans`: its keys cut to the prefix of level l (1-based)
Truncated(axis, l) == [p \in 1..Len(axis.keys) |-> Slice(axis.keys[p], l)]

RECURSIVE SumCounts(_)
SumCounts(spans) == IF spans = <<>> THEN 0 ELSE Head(spans).count + SumCounts(Tail(spans))

\* spans partition [0, n): first start 0, each start the previous start + count,
\* every count >= 1, the counts sum to n; no span when n = 0
IsPartition(spans, n) ==
    /\ n = 0 => spans = <<>>
    /\ n > 0 => Len(spans) >= 1 /\ spans[1].start = 0
    /\ \A k \in 1..Len(spans) :
          /\ spans[k].count >= 1
          /\ k < Len(spans) => spans[k + 1].start = spans[k].start + spans[k].count
    /\ SumCounts(spans) = n

Computed == pc \in {"spans", "merged"}

\* C1: on either axis and at every hierarchy level, the spans of the keys truncated to
\* that level partition [0, len(keys)) exactly (start 0, contiguous, counts >= 1,
\* counts summing to len(keys)); an empty key sequence has no span.
C1_SpansPartition ==
    Computed =>
        /\ Len(row_spans) = df.index.nlevels
        /\ Len(column_spans) = df.columns.nlevels
        /\ \A l \in 1..Len(row_spans) : IsPartition(row_spans[l], Len(df.index.keys))
        /\ \A l \in 1..Len(column_spans) :
              IsPartition(column_spans[l], Len(df.columns.keys))

\* C1's case: a hierarchical row axis with a level of several spans, one of them longer
\* than one position
C1_Witness ==
    /\ pc = "spans"
    /\ df.index.multi
    /\ \E l \in 1..Len(row_spans) :
          /\ Len(row_spans[l]) >= 2
          /\ \E k \in 1..Len(row_spans[l]) : row_spans[l][k].count >= 2

\* each span written out as count copies of its value, in span order
Expand(spans) ==
    FlattenSeq([k \in 1..Len(spans) |-> [j \in 1..spans[k].count |-> spans[k].value]])

\* C2: re-expanding every span into count copies of its value gives back the key
\* sequence (truncated to the span list's level), also when the first keys are null.
C2_RoundTrip ==
    Computed =>
        /\ \A l \in 1..Len(row_spans) : Expand(row_spans[l]) = Truncated(df.index, l)
        /\ \A l \in 1..Len(column_spans) :
              Expand(column_spans[l]) = Truncated(df.columns, l)

\* C2's case: a flat row axis that starts with two nulls followed by a label
C2_Witness ==
    /\ pc = "spans"
    /\ ~df.index.multi
    /\ Len(df.index.keys) >= 3
    /\ df.index.keys[1] = None
    /\ df.index.keys[2] = None
    /\ df.index.keys[3] # None
    /\ Len(row_spans[1]) >= 2

\* the positions (0-based) at which a span of the list starts
Starts(spans) == {spans[k].start : k \in 1..Len(spans)}

\* keys p and p+1 (1-based) of the axis agree on every component 0..L (l = L+1)
AgreeUpTo(axis, p, l) ==
    IF axis.multi
    THEN \A c \in 1..l : axis.keys[p].v[c] = axis.keys[p + 1].v[c]
    ELSE axis.keys[p] = axis.keys[p + 1]

\* the spans of one axis are maximal and prefix-sensitive
MaximalSpans(axis, spans) ==
    /\ \A l \in 1..Len(spans) :
          /\ \A p \in 1..(Len(axis.keys) - 1) :
                (p \notin Starts(spans[l])) <=> AgreeUpTo(axis, p, l)
          /\ \A k \in 1..(Len(spans[l]) - 1) : spans[l][k].value # spans[l][k + 1].value
    /\ \A l, m \in 1..Len(spans) : l <= m => Starts(spans[l]) \subseteq Starts(spans[m])

\* C3: positions i and i+1 are in the same span at level L iff their keys agree on every
\* component 0..L; adjacent spans of a level never carry equal values; every span start
\* of a level is a span start of every deeper level.
C3_MaximalPrefixSensitive ==
    Computed => MaximalSpans(df.index, row_spans) /\ MaximalSpans(df.columns, column_spans)

\* C3's case: two neighbouring keys that differ at level 0 and agree at level 1, so that
\* the level-1 span is cut by the outer level alone
C3_Witness ==
    /\ pc = "spans"
    /\ df.index.multi
    /\ \E p \in 1..(Len(df.index.keys) - 1) :
          /\ df.index.keys[p].v[1] # df.index.keys[p + 1].v[1]
          /\ df.index.keys[p].v[2] = df.index.keys[p + 1].v[2]
          /\ p \in Starts(row_spans[2])

\* ------------------------------------------------------------------ claims on merges
\* the (level, span) pairs of a per-level span list whose span covers several positions
LongSpans(spans) ==
    UNION {{<<l - 1, spans[l][k]>> : k \in {j \in 1..Len(spans[l]) : spans[l][j].count > 1}} :
           l \in 1..Len(spans)}

\* the vertical range of a row span: the column of its level, its rows in the index region
RowRange(region, level, span) ==
    <<y_start(region) + span.start + 1, x_start(region) + level + 1,
      y_start(region) + span.start + span.count, x_start(region) + level + 1>>

\* the horizontal range of a column span: the row of its level, its columns in the
\* column-header region
ColumnRange(region, level, span) ==
    <<y_start(region) + level + 1, x_start(region) + span.start + 1,
      y_start(region) + level + 1, x_start(region) + span.start + span.count>>

\* the elements of a sequence
Range(seq) == {seq[k] : k \in 1..Len(seq)}

\* C4: get_merge_ranges_from_spans emits exactly one range per span with count > 1 and
\* none for a span of count 1: a vertical range in the level's column over the span's
\* rows on the row axis, a horizontal range in the level's row over the span's columns
\* on the column axis.
C4_OneRangePerLongSpan ==
    pc = "merged" =>
        /\ Range(row_merges) =
              {RowRange(layout.index, ls[1], ls[2]) : ls \in LongSpans(row_spans)}
        /\ Len(row_merges) = Cardinality(LongSpans(row_spans))
        /\ Range(column_merges) =
              {ColumnRange(layout.columns, ls[1], ls[2]) : ls \in LongSpans(column_spans)}
        /\ Len(column_merges) = Cardinality(LongSpans(column_spans))

\* C4's case: three two-level row keys of the shape (A,1), (A,2), (B,1): one merge of two
\* rows in the level-0 column for the first label, nothing for the second
C4_Witness ==
    /\ pc = "merged"
    /\ df.index.multi
    /\ df.index.nlevels = 2
    /\ Len(df.index.keys) = 3
    /\ Len(row_spans[1]) = 2
    /\ row_spans[1][1].count = 2
    /\ row_spans[1][2].count = 1
    /\ Len(row_spans[2]) = 3
    /\ row_merges = <<<<y_start(layout.index) + 1, x_start(layout.index) + 1,
                        y_start(layout.index) + 2, x_start(layout.index) + 1>>>>

\* the cells (row, column) of a merge range
RangeCells(r) == {<<row, col>> : row \in r[1]..r[3], col \in r[2]..r[4]}

\* no two entries of a list of merge ranges share a cell
PairwiseDisjoint(ranges) ==
    \A a, b \in 1..Len(ranges) :
        a < b => RangeCells(ranges[a]) \cap RangeCells(ranges[b]) = {}

\* C5: no two merge ranges of one axis returned by one get_all_merge_ranges call share
\* a cell: the row-header span merges and the blank-trailing merges are pairwise
\* disjoint, and so are the column-header span merges.
C5_NoOverlap ==
    pc = "merged" =>
        /\ PairwiseDisjoint(row_merges \o empty_merges)
        /\ PairwiseDisjoint(column_merges)

\* the part of C5 that the code keeps: the span merges of one axis are pairwise disjoint,
\* and so are the blank-trailing merges among themselves
C5_SameKindDisjoint ==
    pc = "merged" =>
        /\ PairwiseDisjoint(row_merges)
        /\ PairwiseDisjoint(column_merges)
        /\ PairwiseDisjoint(empty_merges)

\* the maximal runs <<a, b>> of blank components among levels 1..N-1 of a key (0-based)
BlankRuns(key) ==
    {run \in (1..(Len(key.v) - 1)) \X (1..(Len(key.v) - 1)) :
        /\ run[1] <= run[2]
        /\ \A c \in run[1]..run[2] : key.v[c + 1] \in Blanks
        /\ run[1] > 1 => key.v[run[1]] \notin Blanks
        /\ run[2] < Len(key.v) - 1 => key.v[run[2] + 2] \notin Blanks}

\* the merges the blank runs of the rows ask for: on the row, from the column of the
\* level before the run through the last column of the run
ExpectedEmptyMerges ==
    IF ~df.index.multi THEN {}
    ELSE UNION {{<<y_start(layout.index) + p, x_start(layout.index) + run[1],
                   y_start(layout.index) + p, x_start(layout.index) + run[2] + 1>> :
                    run \in BlankRuns(df.index.keys[p])} :
                p \in 1..Len(df.index.keys)}

\* the number of blank runs over all rows
CountBlankRuns ==
    IF ~df.index.multi THEN 0
    ELSE Cardinality({<<p, run>> \in (1..Len(df.index.keys)) \X ((1..MaxCells) \X (1..MaxCells)) :
                         run \in BlankRuns(df.index.keys[p])})

\* C6: get_empty_spans emits exactly one merge per maximal run of blank (null or
\* empty-string) components among levels 1..N-1 of each row: a single-row range from
\* the column of the level before the run through the last column of the run; a row
\* without blanks and a flat row index contribute nothing.
C6_OneMergePerBlankRun ==
    pc = "merged" =>
        /\ Range(empty_merges) = ExpectedEmptyMerges
        /\ Len(empty_merges) = CountBlankRuns

\* C6's case: a row with two separate runs of blanks and a merge for each, the second
\* one reaching the last index column
C6_Witness ==
    /\ pc = "merged"
    /\ df.index.multi
    /\ \E p \in 1..Len(df.index.keys) :
          /\ Cardinality(BlankRuns(df.index.keys[p])) = 2
          /\ <<y_start(layout.index) + p, x_start(layout.index) + 1,
               y_start(layout.index) + p, x_start(layout.index) + 2>> \in Range(empty_merges)
          /\ <<y_start(layout.index) + p, x_start(layout.index) + 3,
               y_start(layout.index) + p, x_end(layout.index) + 1>> \in Range(empty_merges)

\* ------------------------------------------------------------------ claims on layouts
\* a region of the given size at the given place
IsRegion(region, width, height, x, y) ==
    /\ region.width = width
    /\ region.height = height
    /\ x_start(region) = x
    /\ y_start(region) = y

Flag(b) == IF b THEN 1 ELSE 0

\* the column-header, row-index and data regions follow the layout rules
AxisAndDataRules ==
    /\ IsRegion(layout.columns, args.column_width, args.column_height,
                args.x_offset + args.index_width, args.y_offset)
    /\ IsRegion(layout.index, args.index_width, args.index_height,
                args.x_offset,
                args.y_offset + args.column_height + Flag(args.has_index_names))
    /\ IsRegion(layout.data_layout, args.column_width, args.index_height,
                x_start(layout.columns), y_start(layout.index))

\* C7 as stated: all five regions follow the layout rules for every combination of
\* dimensions, flags and origin, the index-name region one row above the index region's
\* top and the column-name region one column left of the column-header region's left
\* edge.
C7_RegionsAsStated ==
    pc = "built" =>
        /\ AxisAndDataRules
        /\ IsRegion(layout.index_names, layout.index.width,
                    Flag(args.has_index_names),
                    x_start(layout.index), y_start(layout.index) - 1)
        /\ IsRegion(layout.column_names, Flag(args.has_column_names),
                    layout.columns.height,
                    x_start(layout.columns) - 1, y_start(layout.columns))

\* C7 amended: a name region is one row above (one column left of) its axis region when
\* the names are present; when they are absent it is empty and sits at the axis
\* region's own top (left edge).
C7_Regions ==
    pc = "built" =>
        /\ AxisAndDataRules
        /\ IsRegion(layout.index_names, layout.index.width,
                    Flag(args.has_index_names),
                    x_start(layout.index),
                    y_start(layout.index) - Flag(args.has_index_names))
        /\ IsRegion(layout.column_names, Flag(args.has_column_names),
                    layout.columns.height,
                    x_start(layout.columns) - Flag(args.has_column_names),
                    y_start(layout.columns))

\* C7's case: index_levels=2, row_count=3, column_levels=1, col_count=2, index names
\* present, no column names, origin (0,0): index y_start = 2, data at (2,2), size 2x3
C7_Witness ==
    /\ pc = "built"
    /\ args = LayoutArgs(2, 3, 2, 1, TRUE, FALSE, 0, 0)
    /\ y_start(layout.index) = 2
    /\ IsRegion(layout.data_layout, 2, 3, 2, 2)
    /\ IsRegion(layout.index_names, 2, 1, 0, 1)
    /\ IsRegion(layout.column_names, 0, 1, 2, 0)

\* C8: total_width is index region width + data region width and total_height is
\* column-header region height + (1 if has_index_names else 0) + index region height,
\* also with zero rows or zero columns.
C8_Totals ==
    pc = "built" =>
        /\ total_width(layout) = layout.index.width + layout.data_layout.width
        /\ total_width(layout) = args.index_width + args.column_width
        /\ total_height(layout) =
              layout.columns.height + Flag(args.has_index_names) + layout.index.height
        /\ total_height(layout) =
              args.column_height + Flag(args.has_index_names) + args.index_height

\* C8's case: a layout with no rows and no columns and without index names
C8_Witness ==
    /\ pc = "built"
    /\ args.index_height = 0
    /\ args.column_width = 0
    /\ ~args.has_index_names
    /\ total_width(layout) = args.index_width
    /\ total_height(layout) = args.column_height

\* the five regions of a layout
Regions(l) == <<l.columns, l.index, l.index_names, l.column_names, l.data_layout>>

\* C9: with at least one index level and one column level the five regions are pairwise
\* disjoint sets of cells and the data region is the product of the column-header
\* region's x-span and the row-index region's y-span.
C9_RegionsDisjoint ==
    (pc = "built" /\ args.index_width >= 1 /\ args.column_height >= 1) =>
        /\ \A a, b \in 1..5 :
              a < b => Cells(Regions(layout)[a]) \cap Cells(Regions(layout)[b]) = {}
        /\ Cells(layout.data_layout) =
              {CellPosition(x, y) :
                  x \in x_start(layout.columns)..x_end(layout.columns),
                  y \in y_start(layout.index)..y_end(layout.index)}

\* C9's case: a layout all of whose five regions hold cells
C9_Witness ==
    /\ pc = "built"
    /\ \A a \in 1..5 : Cells(Regions(layout)[a]) # {}
    /\ args.index_width >= 2
    /\ args.column_height >= 2

\* ------------------------------------------------------------------ claims on borders
\* the spans that get a level border: start > 0, at a level L < levels_count - mbl
BorderSpans(spans, mbl) ==
    UNION {{spans[l][k] : k \in {j \in 1..Len(spans[l]) : spans[l][j].start > 0}} :
           l \in {m \in 1..Len(spans) : m - 1 < Len(spans) - mbl}}

\* the cells (row, column), one-based, whose given side is set on the worksheet
CellsWithSide(side) == {c \in DOMAIN ws_border : ws_border[c][side] # NoSide}

\* the cells (row, column), one-based, of the table's row y (zero-based), full width
FullRow(y) ==
    {<<y + 1, x + 1>> : x \in TableLayout_x_start(layout)..
                              (TableLayout_x_start(layout) + total_width(layout) - 1)}

\* the cells (row, column), one-based, of the table's column x (zero-based), full height
FullColumn(x) ==
    {<<y + 1, x + 1>> : y \in TableLayout_y_start(layout)..
                              (TableLayout_y_start(layout) + total_height(layout) - 1)}

\* C10: add_level_borders draws a top edge across the full table width at row
\* index.y_start + s.start for exactly the spans s with s.start > 0 at levels
\* L < levels_count - min_border_level, and a left edge down the full table height at
\* column columns.x_start + s.start for the same spans of the column keys; nothing at
\* position 0 of an axis; with min_border_level = 1 a single-level axis gets none.
C10_LevelBorders ==
    pc = "level_borders" =>
        /\ CellsWithSide("top") =
              UNION {FullRow(y_start(layout.index) + sp.start) :
                        sp \in BorderSpans(row_spans, min_border_level)}
        /\ CellsWithSide("left") =
              UNION {FullColumn(x_start(layout.columns) + sp.start) :
                        sp \in BorderSpans(column_spans, min_border_level)}
        /\ CellsWithSide("right") = {}
        /\ CellsWithSide("bottom") = {}
        /\ {<<excel_y(c.position), excel_x(c.position)>> :
                c \in {d \in Range(calls) : d.side = "top"}} = CellsWithSide("top")
        /\ {<<excel_y(c.position), excel_x(c.position)>> :
                c \in {d \in Range(calls) : d.side = "left"}} = CellsWithSide("left")
        /\ \A c \in CellsWithSide("top") : c[1] # y_start(layout.index) + 1
        /\ \A c \in CellsWithSide("left") : c[2] # x_start(layout.columns) + 1
        /\ (min_border_level = DefaultMinBorderLevel /\ Len(row_spans) = 1) =>
              CellsWithSide("top") = {}
        /\ (min_border_level = DefaultMinBorderLevel /\ Len(column_spans) = 1) =>
              CellsWithSide("left") = {}

\* C10's case: the default min_border_level on a hierarchical row axis: a row where an
\* outer level changes has the top edge on all its cells, a row where only the innermost
\* level changes has none
C10_Witness ==
    /\ pc = "level_borders"
    /\ min_border_level = DefaultMinBorderLevel
    /\ df.index.multi
    /\ \E p, q \in 1..(Len(df.index.keys) - 1) :
          /\ p \in Starts(row_spans[Len(row_spans) - 1])
          /\ FullRow(y_start(layout.index) + p) \subseteq CellsWithSide("top")
          /\ q \in Starts(row_spans[Len(row_spans)])
          /\ q \notin Starts(row_spans[Len(row_spans) - 1])
          /\ FullRow(y_start(layout.index) + q) \cap CellsWithSide("top") = {}
    /\ CellsWithSide("left") # {}

\* ------------------------------------------------------------------ claims on borders
\* the steps of write_all, in the order of the code
WriteOrder ==
    <<"init", "column_headers", "index_values", "column_names", "index_names", "data",
      "merges", "level_spans", "vertical_index_border", "horizontal_header_border",
      "level_borders", "custom_borders">>

StepIndex(p) == CHOOSE k \in 1..Len(WriteOrder) : WriteOrder[k] = p

\* write_all has run up to step p, or further
Reached(p) == StepIndex(pc) >= StepIndex(p)

\* the border of the worksheet cell at a 0-based position
BorderAt(position) == BorderOf(ws_border, <<excel_y(position), excel_x(position)>>)

\* the cells of the data region's leftmost column and topmost row
DataLeftColumn ==
    {c \in Cells(layout.data_layout) : c.x = x_start(layout.data_layout)}
DataTopRow ==
    {c \in Cells(layout.data_layout) : c.y = y_start(layout.data_layout)}

\* C11: after add_vertical_index_border every cell of the data region's leftmost column
\* has a left edge, and after add_horizontal_header_border every cell of the data
\* region's topmost row has a top edge.
C11_StructuralBorders ==
    /\ Reached("vertical_index_border") =>
          \A c \in DataLeftColumn : BorderAt(c).left # NoSide
    /\ Reached("horizontal_header_border") =>
          \A c \in DataTopRow : BorderAt(c).top # NoSide

\* C11's case: both passes have run on a table of several rows and columns; the corner
\* cell of the data region has both edges, its neighbours one each
C11_Witness ==
    /\ pc = "horizontal_header_border"
    /\ layout.data_layout.width >= 2
    /\ layout.data_layout.height >= 2
    /\ BorderAt(cell_at(layout.data_layout, 0, 0)).left = MEDIUM
    /\ BorderAt(cell_at(layout.data_layout, 0, 0)).top = MEDIUM
    /\ BorderAt(cell_at(layout.data_layout, 0, 1)).left = MEDIUM
    /\ BorderAt(cell_at(layout.data_layout, 1, 0)).top = MEDIUM

Sides == {"left", "top", "right", "bottom"}

\* C12: each add_left_border / add_top_border / add_right_border / add_bottom_border
\* call changes only the named side of the addressed cell; the other three sides of
\* that cell and every side of every other cell stay as they were.
C12_OnlyNamedSide ==
    [][LET call == calls'[Len(calls')]
       IN \A position \in SheetPositions, side \in Sides :
             (position # call.position \/ side # call.side) =>
                 BorderOf(ws_border', <<excel_y(position), excel_x(position)>>)[side]
                     = BorderAt(position)[side]]_vars

\* C12's case: three calls have left one cell with two different sides set and the
\* other cell with a side set
C12_Witness ==
    /\ pc = "sides"
    /\ Len(calls) = 3
    /\ BorderAt(CellPosition(0, 0)).left = THIN
    /\ BorderAt(CellPosition(0, 0)).top = MEDIUM
    /\ BorderAt(CellPosition(1, 0)).right = THIN

\* ------------------------------------------------------------------ claims on write_all
\* the parts of write_all that reach the worksheet, in the stated order
Parts ==
    <<"column_headers", "index_values", "column_names", "index_names", "data", "merges",
      "vertical_index_border", "horizontal_header_border", "level_borders",
      "custom_borders">>

Rank(part) == CHOOSE k \in 1..Len(Parts) : Parts[k] = part

\* the kind of operation each part issues
KindOf(part) ==
    IF Rank(part) <= 5 THEN "cell" ELSE IF Rank(part) = 6 THEN "merge" ELSE "border"

\* cell writes come before merge requests, merge requests before border applications
KindRank(op) == CASE op = "cell" -> 1 [] op = "merge" -> 2 [] op = "border" -> 3

\* C13: the operations of write_all reach the worksheet in one fixed order: column
\* headers, index values, column names (if present), index names (if present), data
\* body, merge requests, then the borders: vertical index border, horizontal header
\* border, level borders, custom borders; no cell is written after the first merge
\* request and no merge is requested after the first border application (each
\* operation is of a part and a kind no earlier than those of the operation before it).
C13_FixedOrder ==
    /\ \A k \in 1..Len(ops) :
          /\ ops[k].op = KindOf(ops[k].part)
          /\ Reached(ops[k].part)
          /\ ops[k].part = "column_names" => layout.has_column_names
          /\ ops[k].part = "index_names" => layout.has_index_names
    /\ \A k \in 1..(Len(ops) - 1) :
          /\ Rank(ops[k].part) <= Rank(ops[k + 1].part)
          /\ KindRank(ops[k].op) <= KindRank(ops[k + 1].op)

\* C13's case: write_all has finished and every part has reached the worksheet
C13_Witness ==
    /\ pc = "custom_borders"
    /\ \A k \in 1..Len(Parts) : \E m \in 1..Len(ops) : ops[m].part = Parts[k]

\* ------------------------------------------------------------------ claims on patterns
\* the labels that are text
IsText(x) == x \in {"EU", "EU-total", ""}

\* text p is an initial part of text t, character by character
IsPrefix(p, t) ==
    /\ Len(p) <= Len(t)
    /\ \A k \in 1..Len(p) : SubSeq(t, k, k) = SubSeq(p, k, k)

\* the reference: when does a pattern match a key
Matches(key, pattern) ==
    IF pattern.tuple THEN key.tuple /\ key.v = pattern.v
    ELSE IF ~key.tuple THEN key.v[1] = pattern.v[1]
    ELSE \E c \in 1..Len(key.v) :
            \/ key.v[c] = pattern.v[1]
            \/ IsText(key.v[c]) /\ IsText(pattern.v[1]) /\ IsPrefix(pattern.v[1], key.v[c])

\* C14: is_match agrees with the reference for every key and pattern: a tuple pattern
\* matches exactly the identical tuple key; a non-tuple pattern matches a scalar key
\* exactly when they are equal, and a tuple key exactly when some component equals the
\* pattern or, both being text, starts with it.
C14_IsMatchReference ==
    pc = "matched" =>
        \A i \in 1..Len(labels), j \in 1..Len(patterns) :
            matches[i][j] <=> Matches(labels[i], patterns[j].pattern)

\* C14's case: a tuple key matched through a component that starts with the pattern
C14_Witness ==
    /\ pc = "matched"
    /\ labels[1] = TupleKey(<<"1", "EU-total">>)
    /\ patterns[1].pattern = Scalar("EU")
    /\ matches[1][1]

\* the scalar text keys that start with a text pattern
ScalarPrefixCase(i, j) ==
    /\ ~labels[i].tuple /\ ~patterns[j].pattern.tuple
    /\ IsText(labels[i].v[1]) /\ IsText(patterns[j].pattern.v[1])
    /\ IsPrefix(patterns[j].pattern.v[1], labels[i].v[1])

\* C15 as stated: a text pattern matches a scalar text label that starts with it, so
\* is_match("EU-total", "EU") is True.
C15_ScalarPrefix ==
    pc = "matched" =>
        \A i \in 1..Len(labels), j \in 1..Len(patterns) :
            ScalarPrefixCase(i, j) => matches[i][j]

\* C15, amended: a text pattern matches a scalar text label only when the two are
\* equal, so is_match("EU-total", "EU") is False; a label that merely starts with the
\* pattern matches as a component of a tuple key, is_match(("EU-total",), "EU").
C15_ScalarByEquality ==
    pc = "matched" =>
        \A i \in 1..Len(labels), j \in 1..Len(patterns) :
            /\ ScalarPrefixCase(i, j) =>
                  (matches[i][j] <=> labels[i].v[1] = patterns[j].pattern.v[1])
            /\ (labels[i] = Scalar("EU-total") /\ patterns[j].pattern = Scalar("EU")) =>
                  ~matches[i][j]
            /\ (labels[i] = TupleKey(<<"EU-total">>) /\ patterns[j].pattern = Scalar("EU")) =>
                  matches[i][j]

\* C15's case: is_match("EU-total", "EU") has answered False
C15_Witness ==
    /\ pc = "matched"
    /\ labels[1] = Scalar("EU-total")
    /\ patterns[1].pattern = Scalar("EU")
    /\ ~matches[1][1]

\* the list positions of the patterns that is_match accepts for a label
Accepted(label) == {j \in 1..Len(patterns) : is_match(label, patterns[j].pattern)}

\* the value of the first accepted pattern, null when there is none
FirstMatch(label) ==
    IF Accepted(label) = {} THEN NULL
    ELSE patterns[CHOOSE j \in Accepted(label) : \A k \in Accepted(label) : j <= k].value

\* C16: find_match returns the value of the first pattern in list order that is_match
\* accepts, null when none does; create_position_map returns an array as long as the
\* key sequence whose i-th entry is find_match(keys[i], patterns).
C16_FirstMatchWins ==
    /\ pc \in {"found", "mapped"} =>
          /\ Len(found) = Len(labels)
          /\ \A i \in 1..Len(labels) : found[i] = FirstMatch(labels[i])
    /\ pc = "mapped" =>
          /\ Len(position_map) = Len(labels)
          /\ \A i \in 1..Len(labels) : position_map[i] = found[i]

\* C16's case: the second pattern is the label itself, the first only a prefix of one
\* of its components, and the first wins; the other label matches no pattern
C16_Witness ==
    /\ pc = "mapped"
    /\ Len(labels) = 2 /\ Len(patterns) = 2
    /\ labels[1] = TupleKey(<<"EU-total", "EU">>)
    /\ patterns[1].pattern = Scalar("EU")
    /\ patterns[2].pattern = TupleKey(<<"EU-total", "EU">>)
    /\ position_map[1] = Formats[1]
    /\ labels[2] = Scalar(NULL)
    /\ position_map[2] = NULL

\* ------------------------------------------------------------------ claims on formats
\* the (pattern, format) pairs number_formats holds for an axis
AxisPatterns(is_row) ==
    IF ~HasSpecs(number_formats) THEN <<>>
    ELSE CASE number_formats.type = "split" ->
                IF is_row
                THEN (IF number_formats.has_rows THEN number_formats.rows ELSE <<>>)
                ELSE (IF number_formats.has_columns THEN number_formats.columns ELSE <<>>)
           [] number_formats.type = "both" -> number_formats.patterns
           [] number_formats.type = "pattern" ->
                <<PatternValue(number_formats.pattern, default_number_format)>>

\* the list positions of the patterns of an axis that match a key
MatchedBy(key, ps) == {k \in 1..Len(ps) : is_match(key, ps[k].pattern)}

\* the format of the first pattern that matches the key
PatternFormat(key, ps) ==
    ps[CHOOSE k \in MatchedBy(key, ps) : \A m \in MatchedBy(key, ps) : k <= m].value

\* the format the stated priority gives data cell (i, j), 1-based; a cell given the
\* empty format, like a cell given none, is left without a number format
StatedFormat(i, j) ==
    LET row == df.index.keys[i]
        col == df.columns.keys[j]
    IN IF MatchedBy(row, AxisPatterns(TRUE)) # {}
       THEN PatternFormat(row, AxisPatterns(TRUE))
       ELSE IF MatchedBy(col, AxisPatterns(FALSE)) # {}
       THEN PatternFormat(col, AxisPatterns(FALSE))
       ELSE default_number_format

\* the data cell writes among the operations, with their 1-based row and column
DataWrites == {k \in 1..Len(ops) : ops[k].part = "data"}
DataRow(k) == ops[k].position.y - y_start(layout.data_layout) + 1
DataColumn(k) == ops[k].position.x - x_start(layout.data_layout) + 1

\* C17: every data cell (i, j) written by write_data gets the row-pattern format of
\* row i if a row pattern matched, otherwise the column-pattern format of column j if a
\* column pattern matched, otherwise the default format, otherwise none.
C17_FormatPriority ==
    \A k \in DataWrites :
        LET stated == StatedFormat(DataRow(k), DataColumn(k))
        IN ops[k].number_format = IF stated = "" THEN NULL ELSE stated

\* ------------------------------------------------------------------ claims on apply_merges
RECURSIVE AcceptedUpTo(_)
\* the first n ranges of the list without those the worksheet rejects
AcceptedUpTo(n) ==
    IF n = 0 THEN <<>>
    ELSE IF n \in rejected THEN AcceptedUpTo(n - 1)
    ELSE Append(AcceptedUpTo(n - 1), merge_ranges[n])

\* C18: whatever ranges of the list the worksheet rejects, apply_merges lets no error
\* out, hands every range of the list to the worksheet in list order, and leaves in
\* applied_merges exactly the ranges the worksheet accepted, in order.
C18_SkipAndContinue ==
    pc = "applied" =>
        /\ raised = NoError
        /\ ops = [k \in 1..Len(merge_ranges) |-> MergeOp(merge_ranges[k])]
        /\ applied_merges = AcceptedUpTo(Len(merge_ranges))

\* C18's case: the second of three ranges was rejected and the third still applied
C18_Witness ==
    /\ pc = "applied"
    /\ Len(merge_ranges) = 3
    /\ rejected = {2}
    /\ Len(ops) = 3
    /\ applied_merges = <<merge_ranges[1], merge_ranges[3]>>

\* ------------------------------------------------------------------ claims on max_level
\* C19: get_level_spans(keys, max_level) returns one span list per level 0..max_level,
\* with max_level omitted one per level of the hierarchy, and exactly one for a flat
\* axis (max_level within the depth of the axis).
C19_OneListPerLevel ==
    (pc = "levels" /\ max_level < df.index.nlevels) =>
        Len(row_spans) = IF ~df.index.multi THEN 1
                         ELSE IF max_level = NoLevel THEN df.index.nlevels
                         ELSE max_level + 1

\* C20: get_level_spans with a max_level beyond the number of levels of the axis,
\* hierarchical or flat, ends in an InvalidHierarchyError instead of span lists.
C20_InvalidHierarchy ==
    (pc = "levels" /\ max_level > df.index.nlevels) =>
        raised = "InvalidHierarchyError" /\ row_spans = <<>>

\* ------------------------------------------------------------------ claims on NONE
\* C23: an add_<side>_border call with style NONE raises no error and is a no-op: all
\* four sides of the addressed cell's border, and every other cell, are after the call
\* as they were before it.
C23_NoneIsNoOp ==
    [][calls'[Len(calls')].style = NONE =>
          /\ raised' = NoError
          /\ \A position \in SheetPositions :
                BorderOf(ws_border', <<excel_y(position), excel_x(position)>>)
                    = BorderAt(position)]_vars

\* ------------------------------------------------------------------ claims on the passes
\* C27: during write_all an edge that a border pass has set on a side of a cell is
\* still set after every later pass: each side that any add_<side>_border call so far
\* has set is set on the worksheet.
C27_EdgesStay ==
    \A k \in 1..Len(calls) :
        calls[k].style # NONE => BorderAt(calls[k].position)[calls[k].side] # NoSide

\* C27's case: all four passes have run; a later pass has put a second side on a cell
\* that had one, and a later pass has set again a side that an earlier pass had set
C27_Witness ==
    /\ pc = "custom_borders"
    /\ \E i, j \in 1..Len(ops) :
          /\ i < j
          /\ ops[i].op = "border" /\ ops[j].op = "border"
          /\ ops[i].part = "vertical_index_border"
          /\ ops[j].part # ops[i].part
          /\ ops[i].call.position = ops[j].call.position
          /\ ops[i].call.side # ops[j].call.side
          /\ BorderAt(ops[i].call.position).left = MEDIUM
          /\ BorderAt(ops[i].call.position).top # NoSide
    /\ \E i, j \in 1..Len(ops) :
          /\ i < j
          /\ ops[i].op = "border" /\ ops[j].op = "border"
          /\ ops[i].part = "horizontal_header_border"
          /\ ops[j].part = "custom_borders"
          /\ ops[i].call.position = ops[j].call.position
          /\ ops[i].call.side = ops[j].call.side
          /\ BorderAt(ops[i].call.position).top = THIN

\* the cells of the table's bounding rectangle, x_start .. x_end by y_start .. y_end
BoundingRectangle ==
    {CellPosition(x, y) :
        x \in TableLayout_x_start(layout)..TableLayout_x_end(layout),
        y \in TableLayout_y_start(layout)..TableLayout_y_end(layout)}

\* C30: every edge that the four border passes of write_all place lies on a cell of
\* the table's bounding rectangle, whatever the dimensions of the table, zero rows
\* and zero columns included.
C30_EdgesInsideTable ==
    \A k \in 1..Len(calls) : calls[k].position \in BoundingRectangle

\* the same for a table that has a row and a column
C30_EdgesInsideTableWithData ==
    (Len(df.index.keys) > 0 /\ Len(df.columns.keys) > 0) => C30_EdgesInsideTable

\* ------------------------------------------------------------------ claims on headers
\* the positions in ops of the value writes of a part
WritesOf(part) == {k \in 1..Len(ops) : ops[k].op = "cell" /\ ops[k].part = part}

\* a hierarchical axis of N levels and P positions has, among the writes of its part,
\* exactly N x P writes, one at every (level, position) cell of the region, carrying
\* component `level` of key `position` (None / NaN is written as the empty text), and
\* all of them before the first merge request
OneWritePerLevelAndPosition(part, axis, region, is_row) ==
    LET N == axis.nlevels
        P == Len(axis.keys)
    IN /\ Cardinality(WritesOf(part)) = N * P
       /\ \A position \in 1..P, level \in 1..N :
             LET cell == IF is_row
                         THEN cell_at(region, level - 1, position - 1)
                         ELSE cell_at(region, position - 1, level - 1)
                 component == axis.keys[position].v[level]
             IN \E k \in WritesOf(part) :
                   /\ ops[k].position = cell
                   /\ ops[k].value = IF component = NULL THEN "" ELSE component
                   /\ \A m \in 1..Len(ops) : ops[m].op = "merge" => k < m

\* C28: for a hierarchical axis of N levels and P positions write_all writes a header
\* cell at every (level, position) pair, N x P writes, each carrying component `level`
\* of key `position`, before any merge is requested, cells that a later merge covers
\* included; and no cell of the grid gets more than one value write in a write_all.
C28_HeaderCellEverywhere ==
    /\ (Reached("column_headers") /\ df.columns.multi) =>
          OneWritePerLevelAndPosition("column_headers", df.columns, layout.columns, FALSE)
    /\ (Reached("index_values") /\ df.index.multi) =>
          OneWritePerLevelAndPosition("index_values", df.index, layout.index, TRUE)
    /\ LET cell_writes == {k \in 1..Len(ops) : ops[k].op = "cell"}
       IN Cardinality({ops[k].position : k \in cell_writes}) = Cardinality(cell_writes)

\* C28's case: both axes are hierarchical and named, write_all has requested its
\* merges, and on each axis a header cell that was written lies inside a merge without
\* being its top-left cell
C28_Witness ==
    /\ Reached("merges")
    /\ df.index.multi /\ df.columns.multi
    /\ layout.has_index_names /\ layout.has_column_names
    /\ \A part \in {"column_headers", "index_values"} :
          \E k \in WritesOf(part), m \in 1..Len(ops) :
             /\ ops[m].op = "merge"
             /\ k < m
             /\ excel_y(ops[k].position) \in ops[m].range[1]..ops[m].range[3]
             /\ excel_x(ops[k].position) \in ops[m].range[2]..ops[m].range[4]
             /\ <<excel_y(ops[k].position), excel_x(ops[k].position)>>
                    # <<ops[m].range[1], ops[m].range[2]>>

\* ------------------------------------------------------------------ custom borders
\* most keys on the row axis of a table written with border_specs
MaxBorderKeys == 2

\* the border patterns tried: the texts "A", "B" and "", and the pair ("A", "")
BorderPatterns == {Scalar("A"), Scalar("B"), Scalar(""), TupleKey(<<"A", "">>)}

\* the pattern lists tried: none, one pattern, the two patterns "B", "A"
BorderPatternLists ==
    {<<>>, <<Scalar("B"), Scalar("A")>>} \cup {<<p>> : p \in BorderPatterns}

\* the border_specs arguments tried: None, {'rows': ..., 'columns': ...} with either
\* key or both, a dict of patterns or a list of patterns, one bare pattern
BorderSpecs ==
    {NoSpecs}
    \cup {SplitSpecs(TRUE, rows, FALSE, <<>>) : rows \in BorderPatternLists}
    \cup {SplitSpecs(FALSE, <<>>, TRUE, columns) : columns \in BorderPatternLists}
    \cup {SplitSpecs(TRUE, <<p>>, TRUE, <<q>>) : p, q \in {Scalar("A"), Scalar("B")}}
    \cup {BothSpecs(ps) : ps \in BorderPatternLists}
    \cup {PatternSpecs(p) : p \in BorderPatterns}

\* a writer for a table of up to MaxBorderKeys rows with two-level keys over "A" and
\* the empty text, and two flat columns "A", "B", with any of the border_specs
InitCustom ==
    /\ pc = "init"
    /\ \E len \in 0..MaxBorderKeys :
          \E keys \in [1..len -> AxisKeys(TRUE, 2, EMPTY)], bs \in BorderSpecs :
             Constructed([index |-> Axis(TRUE, 2, Unnamed(2), keys), columns |-> PlainAxis],
                         NoSpecs, NULL, bs)

SpecCustom == InitCustom /\ [][NextWrite]_vars

\* ------------------------------------------------------------------ claims on custom borders
\* the border patterns the caller has supplied for an axis
SuppliedPatterns(is_row) ==
    CASE border_specs.type = "none" -> <<>>
      [] border_specs.type = "split" ->
            IF is_row THEN border_specs.rows ELSE border_specs.columns
      [] border_specs.type = "both" -> border_specs.patterns
      [] border_specs.type = "pattern" -> <<border_specs.pattern>>

\* the key matches one of the patterns supplied for its axis
MatchesSupplied(key, is_row) ==
    \E k \in 1..Len(SuppliedPatterns(is_row)) : is_match(key, SuppliedPatterns(is_row)[k])

\* the (side, cell) pairs of the edges that add_custom_borders has placed
CustomEdges ==
    {<<ops[k].call.side, ops[k].call.position>> :
        k \in {m \in 1..Len(ops) : ops[m].part = "custom_borders"}}

\* C24: row flag i is True exactly when key i of the index matches one of the border
\* patterns the caller supplied, and column flag j likewise; add_custom_borders draws
\* a top edge across the table's width at row index.y_start + i exactly for the rows
\* flagged, a left edge down the table's height at column columns.x_start + j exactly
\* for the columns flagged, and nothing else.
C24_CustomBorders ==
    /\ \A i \in 1..Len(df.index.keys) :
          row_borders[i] <=> MatchesSupplied(df.index.keys[i], TRUE)
    /\ \A j \in 1..Len(df.columns.keys) :
          column_borders[j] <=> MatchesSupplied(df.columns.keys[j], FALSE)
    /\ pc = "custom_borders" =>
          CustomEdges =
              {<<"top", CellPosition(x, y_start(layout.index) + i - 1)>> :
                  x \in TableLayout_x_start(layout)..TableLayout_x_end(layout),
                  i \in {r \in 1..Len(row_borders) : row_borders[r]}}
              \cup
              {<<"left", CellPosition(x_start(layout.columns) + j - 1, y)>> :
                  y \in TableLayout_y_start(layout)..TableLayout_y_end(layout),
                  j \in {c \in 1..Len(column_borders) : column_borders[c]}}

\* the same for border_specs that Python takes for true: anything but None, an empty
\* dict or list and the empty text
C24_CustomBordersOfTruthySpecs ==
    HasSpecs(border_specs) => C24_CustomBorders

\* ------------------------------------------------------------------ claims on merge ranges
\* start_row <= end_row and start_col <= end_col
WellFormed(r) == r[1] <= r[3] /\ r[2] <= r[4]

\* the cells (row, column) of a region, in the worksheet's one-based coordinates
ExcelCells(region) == {<<excel_y(c), excel_x(c)>> : c \in Cells(region)}

\* C25: every merge range that get_all_merge_ranges returns is well formed, start_row
\* <= end_row and start_col <= end_col; the row-header ranges and the blank-trailing
\* ranges lie within the row-index region, the column-header ranges within the
\* column-header region.
C25_RangesInsideHeaders ==
    pc = "merged" =>
        /\ merge_ranges = row_merges \o column_merges \o empty_merges
        /\ \A k \in 1..Len(merge_ranges) : WellFormed(merge_ranges[k])
        /\ \A k \in 1..Len(row_merges) :
              RangeCells(row_merges[k]) \subseteq ExcelCells(layout.index)
        /\ \A k \in 1..Len(empty_merges) :
              RangeCells(empty_merges[k]) \subseteq ExcelCells(layout.index)
        /\ \A k \in 1..Len(column_merges) :
              RangeCells(column_merges[k]) \subseteq ExcelCells(layout.columns)

\* C25's case: a row axis whose last key is merged with the key before it and has a
\* blank trailing level, so that a span merge and a blank-trailing merge both end on
\* the last row of the index region
C25_Witness ==
    /\ pc = "merged"
    /\ \E k \in 1..Len(row_merges) : row_merges[k][3] = y_end(layout.index) + 1
    /\ \E k \in 1..Len(empty_merges) :
          /\ empty_merges[k][3] = y_end(layout.index) + 1
          /\ empty_merges[k][4] = x_end(layout.index) + 1

\* C25's case on the column axis: a column-header merge that ends on the last column
C25_WitnessColumns ==
    /\ pc = "merged"
    /\ \E k \in 1..Len(column_merges) : column_merges[k][4] = x_end(layout.columns) + 1

\* ------------------------------------------------------------------ two calls
\* mutant of CallGetAllMergeRangesAgain: the ranges are collected in a list that the
\* first call has left filled
CallAgainAccumulating ==
    /\ pc = "merged"
    /\ LET r == get_all_merge_ranges(df, layout)
       IN /\ row_merges' = row_merges \o r.row_merges
          /\ column_merges' = column_merges \o r.column_merges
          /\ empty_merges' = empty_merges \o r.empty_merges
          /\ merge_ranges' = merge_ranges \o r.all
    /\ pc' = "merged_again"
    /\ UNCHANGED <<args, df, layout, row_spans, column_spans, sheet, others>>

\* a second get_all_merge_ranges(df, layout) call on the table and the layout as the
\* first call has left them
CallGetAllMergeRangesAgain ==
    /\ pc = "merged"
    /\ LET r == get_all_merge_ranges(df, layout)
       IN /\ row_merges' = r.row_merges
          /\ column_merges' = r.column_merges
          /\ empty_merges' = r.empty_merges
          /\ merge_ranges' = r.all
    /\ pc' = "merged_again"
    /\ UNCHANGED <<args, df, layout, row_spans, column_spans, sheet, others>>

NextTwice == CallGetLevelSpans \/ CallGetAllMergeRanges \/ CallGetAllMergeRangesAgain

SpecTwice == InitSpans /\ [][NextTwice]_vars

MaxNegativeOffset == 2

\* most keys on an axis of a table written at any origin
MaxOriginKeys == 2

\* the keys of the tables written at any origin, in order
OriginKeys(multi) ==
    IF multi THEN <<TupleKey(<<"A", "A">>), TupleKey(<<"A", "B">>), TupleKey(<<"B", "A">>)>>
    ELSE <<Scalar("A"), Scalar("B"), Scalar("C")>>

\* an axis of the first len of these keys, flat or of two levels, named or not
OriginAxis(multi, len, named) ==
    LET n == IF multi THEN 2 ELSE 1
    IN Axis(multi, n, IF named THEN Named(n) ELSE Unnamed(n),
            SubSeq(OriginKeys(multi), 1, Min(len, Len(OriginKeys(multi)))))

\* ExcelTableWriter(df, worksheet, x_offset, y_offset) for a table of up to
\* MaxOriginKeys rows and columns and any origin offsets, negative ones included:
\* __init__ checks neither offset
InitOrigin ==
    /\ pc = "init"
    /\ \E x_offset, y_offset \in (0 - MaxNegativeOffset)..1,
          multi_index, multi_columns, hin, hcn \in BOOLEAN,
          rows, columns \in 0..MaxOriginKeys :
          LET table == [index |-> OriginAxis(multi_index, rows, hin),
                        columns |-> OriginAxis(multi_columns, columns, hcn)]
          IN /\ df = table
             /\ layout = from_df(table, x_offset, y_offset)
             /\ row_formats = NoFormats(table.index)
             /\ column_formats = NoFormats(table.columns)
             /\ row_borders = NoFlags(table.index)
             /\ column_borders = NoFlags(table.columns)
    /\ number_formats = NoSpecs
    /\ default_number_format = NULL
    /\ border_specs = NoSpecs
    /\ args = NoArgs
    /\ NothingComputed
    /\ FreshSheet
    /\ FreshSinks
    /\ max_level = NoLevel
    /\ NoMatcher
    /\ NoManager

\* the cell a cell write or a border application addresses
Addressed(op) == IF op.op = "cell" THEN op.position ELSE op.call.position

\* worksheet.cell(row=..., column=...) of the grid sink, whose coordinates are
\* one-based: a ValueError for a row or a column below 1
CellExists(op) == excel_x(Addressed(op)) >= 1 /\ excel_y(Addressed(op)) >= 1

\* the operations of a step that reach the worksheet: all of them, or those before
\* the first one that raises
UpToError(new_ops) ==
    LET bad == {k \in 1..Len(new_ops) : ~CellExists(new_ops[k])}
    IN IF bad = {} THEN new_ops
       ELSE SubSeq(new_ops, 1, (CHOOSE k \in bad : \A m \in bad : k <= m) - 1)

\* a step of write_all that writes cells or applies borders: no statement of
\* write_all catches the worksheet's ValueError, so the first one ends the run
OriginStep(from, to, new_ops) ==
    /\ pc = from
    /\ LET done == UpToError(new_ops)
           cs == [k \in 1..Len(done) |-> done[k].call]
       IN /\ ops' = ops \o done
          /\ IF to \in {"column_headers", "index_values", "column_names", "index_names", "data"}
             THEN UNCHANGED <<calls, ws_border>>
             ELSE /\ calls' = calls \o cs
                  /\ ws_border' = ApplyCalls(ws_border, cs)
          /\ IF Len(done) = Len(new_ops)
             THEN pc' = to /\ raised' = raised
             ELSE pc' = "failed" /\ raised' = "ValueError"
    /\ UNCHANGED <<args, df, layout, computed, min_border_level, max_level, matcher, writer,
                   applied_merges, rejected, manager>>

\* line 250: self.write_column_headers()
OriginColumnHeaders ==
    OriginStep("init", "column_headers", write_column_headers(df, layout))

\* line 251: self.write_index_values()
OriginIndexValues ==
    OriginStep("column_headers", "index_values", write_index_values(df, layout))

\* lines 253-254: if self.layout.has_column_names: self.write_column_names()
OriginColumnNames ==
    OriginStep("index_values", "column_names",
               IF layout.has_column_names THEN write_column_names(df, layout) ELSE <<>>)

\* lines 256-257: if self.layout.has_index_names: self.write_index_names()
OriginIndexNames ==
    OriginStep("column_names", "index_names",
               IF layout.has_index_names THEN write_index_names(df, layout) ELSE <<>>)

\* line 259: self.write_data()
OriginData ==
    OriginStep("index_names", "data",
               write_data(df, layout, row_formats, column_formats, default_number_format))

\* line 270: add_vertical_index_border(layout)
OriginVerticalIndexBorder ==
    OriginStep("level_spans", "vertical_index_border",
               BorderOps("vertical_index_border", add_vertical_index_border(layout, MEDIUM)))

\* line 271: add_horizontal_header_border(layout)
OriginHorizontalHeaderBorder ==
    OriginStep("vertical_index_border", "horizontal_header_border",
               BorderOps("horizontal_header_border",
                         add_horizontal_header_border(layout, MEDIUM)))

\* lines 272-277: add_level_borders(layout, row_spans, column_spans, min_border_level=1)
OriginLevelBorders ==
    OriginStep("horizontal_header_border", "level_borders",
               BorderOps("level_borders",
                         add_level_borders(layout, row_spans, column_spans,
                                           min_border_level, THIN)))

\* lines 278-282: add_custom_borders(layout, row_borders, column_borders)
OriginCustomBorders ==
    OriginStep("level_borders", "custom_borders",
               BorderOps("custom_borders",
                         add_custom_borders(layout, row_borders, column_borders, THIN)))

\* write_all() on a worksheet that refuses the cells it does not have; the merges
\* and the spans are computed as in the other write_all runs
NextOrigin ==
    \/ OriginColumnHeaders
    \/ OriginIndexValues
    \/ OriginColumnNames
    \/ OriginIndexNames
    \/ OriginData
    \/ ApplyMerges
    \/ LevelSpans
    \/ OriginVerticalIndexBorder
    \/ OriginHorizontalHeaderBorder
    \/ OriginLevelBorders
    \/ OriginCustomBorders

SpecOrigin == InitOrigin /\ [][NextOrigin]_vars

\* ------------------------------------------------------------------ claims on the origin
\* a cell has been written
CellWritten == \E k \in 1..Len(ops) : ops[k].op = "cell"

\* C21: a write_all run that ends in an error has written no cell before the error.
C21_FailBeforeAnyCell ==
    raised # NoError => ~CellWritten

\* the merge ranges that reach the worksheet lie on cells that were written, so none
\* of them has a row or a column below 1
C21_MergesOnTheSheet ==
    \A k \in 1..Len(ops) : ops[k].op = "merge" => ops[k].range[1] >= 1 /\ ops[k].range[2] >= 1

\* a run from an origin with a negative offset does not come to its end
C21_NegativeOriginFails ==
    (layout.position.x < 0 \/ layout.position.y < 0) => pc # "custom_borders"

\* ------------------------------------------------------------------ table/grouped.py
\* GroupHeaderValue(value): shown as the value, equal to no value that is not wrapped
GroupHeaderValue(value) == [tuple |-> FALSE, v |-> <<value>>, header |-> TRUE]

\* isinstance(value, GroupHeaderValue)
IsGroupHeader(key) == "header" \in DOMAIN key

\* DEFAULT_HEADER_ROW_HEIGHT
DEFAULT_HEADER_ROW_HEIGHT == 32

RECURSIVE GroupNames(_, _)
\* groupby(level=0, sort=False): the labels of level 0 in the order they first appear
GroupNames(keys, seen) ==
    IF keys = <<>> THEN seen
    ELSE GroupNames(Tail(keys),
                    IF \E k \in 1..Len(seen) : seen[k] = Head(keys).v[1] THEN seen
                    ELSE Append(seen, Head(keys).v[1]))

\* _stack_group(group) for an index of two levels: a header row whose key wraps the
\* group's name, then the rows of the group with level 0 dropped
stack_group(name, keys) ==
    LET InGroup(key) == key.v[1] = name
        group == SelectSeq(keys, InGroup)
    IN [keys |-> <<GroupHeaderValue(name)>> \o [k \in 1..Len(group) |-> Scalar(group[k].v[2])],
        marker |-> <<TRUE>> \o [k \in 1..Len(group) |-> FALSE]]

\* add_group_headers(df, 0) for a df whose index has two levels and no names: the
\* table with one header row on top of every group, and the marker of the header rows
\* (the values of a header row, pd.NA in every column, are not kept: a table here is
\* its two axes)
add_group_headers(table) ==
    LET names == GroupNames(table.index.keys, <<>>)
        groups == [g \in 1..Len(names) |-> stack_group(names[g], table.index.keys)]
    IN [df |-> [index |-> Axis(FALSE, 1, Unnamed(1),
                               FlattenSeq([g \in 1..Len(groups) |-> groups[g].keys])),
                columns |-> table.columns],
        marker_column |-> FlattenSeq([g \in 1..Len(groups) |-> groups[g].marker])]

\* GroupedExcelTableWriter.write_index_values(): a missing value is skipped, a group
\* header is written unwrapped in GROUP_HEADER_STYLE
grouped_write_index_values(table, lay) ==
    FlattenSeq([i \in 1..lay.index.height |->
        FlattenSeq([level \in 1..lay.index.width |->
            LET key == table.index.keys[i]
                position == CellPosition(x_start(lay.index) + level - 1,
                                         y_start(lay.index) + i - 1)
            IN IF ~key.tuple /\ level > 1 THEN <<>>
               ELSE IF key.v[level] = NULL THEN <<>>
               ELSE <<write_cell("index_values", position, key.v[level],
                                 IF IsGroupHeader(key) THEN "GROUP_HEADER_STYLE"
                                 ELSE "INDEX_STYLE", NULL)>>])])

\* GroupedExcelTableWriter.write_all(), lines 257-263: the height of the header rows
row_heights(marker_column, lay) ==
    FlattenSeq([i \in 1..Len(marker_column) |->
        IF marker_column[i]
        THEN <<[op |-> "row_height", part |-> "group_headers",
                row |-> excel_y(cell_at(lay.index, 0, i - 1)),
                height |-> DEFAULT_HEADER_ROW_HEIGHT]>>
        ELSE <<>>])

\* ------------------------------------------------------------------ write_all, in one
\* ExcelTableWriter(df, worksheet, x_offset, y_offset).write_all() without formats and
\* border specs on a worksheet that has the cells and accepts the merges: all the
\* operations it sends, in order
write_all(table, lay, grouped) ==
    LET merges == get_all_merge_ranges(table, lay).all
    IN write_column_headers(table, lay)
       \o (IF grouped THEN grouped_write_index_values(table, lay)
           ELSE write_index_values(table, lay))
       \o (IF lay.has_column_names THEN write_column_names(table, lay) ELSE <<>>)
       \o (IF lay.has_index_names THEN write_index_names(table, lay) ELSE <<>>)
       \o write_data(table, lay, NoFormats(table.index), NoFormats(table.columns), NULL)
       \o [k \in 1..Len(merges) |-> MergeOp(merges[k])]
       \o BorderOps("vertical_index_border", add_vertical_index_border(lay, MEDIUM))
       \o BorderOps("horizontal_header_border", add_horizontal_header_border(lay, MEDIUM))
       \o BorderOps("level_borders",
                    add_level_borders(lay, get_level_spans(table.index, NoLevel),
                                      get_level_spans(table.columns, NoLevel),
                                      DefaultMinBorderLevel, THIN))
       \o BorderOps("custom_borders",
                    add_custom_borders(lay, NoFlags(table.index), NoFlags(table.columns), THIN))

\* ------------------------------------------------------------------ elements
\* _get_preset_style(preset): the key of the dict returned, DEFAULT_STYLE for a name
\* that is not a preset
PresetKey(preset) == IF preset \in PresetNames THEN preset ELSE "default"

\* WorksheetElement._write_cell(worksheet, position, value, style)
element_write_cell(part, position, value, style) ==
    [op |-> "cell", part |-> part, position |-> position, value |-> value,
     style |-> style, number_format |-> NULL]

\* an element of WorksheetManager.elements: where it starts, its width and height
\* properties, the preset it was made with ("custom" for a style dict of the caller),
\* and the operations its render has sent to the worksheet
Element(kind, style_preset, position, width, height, rendered) ==
    [kind |-> kind, style_preset |-> style_preset, position |-> position,
     width |-> width, height |-> height, rendered |-> rendered]

\* WorksheetElement.y_end
element_y_end(element) == element.position.y + element.height - 1

\* WorksheetElement.get_position_below(spacing=1)
get_position_below(element) == CellPosition(element.position.x, element_y_end(element) + 1)

\* WorksheetManager._get_next_position(None, None)
get_next_position(es) ==
    IF Len(es) = 0 THEN CellPosition(0, 0) ELSE get_position_below(es[Len(es)])

\* TextElement(text, x, y, style, style_preset) and its render: the style is the
\* caller's dict or the preset's dict as it is now
TextElement(kind, ps, preset, position) ==
    LET style == IF preset = "custom" THEN Style("custom", FALSE) ELSE ps[PresetKey(preset)]
    IN Element(kind, preset, position, 1, 1,
               <<element_write_cell(kind, position, "text", style)>>)

\* MultiColumnTextElement.__init__, line 149: self.style["wrap_text"] = True, where
\* self.style is the preset's dict itself unless the caller gave a style
WrapText(ps, preset) ==
    IF preset = "custom" THEN ps ELSE [ps EXCEPT ![PresetKey(preset)].wrap_text = TRUE]

\* MultiColumnTextElement(text, width, x, y, style, style_preset) and its render, the
\* row height left at None: one cell, and a merge if the width is more than 1
MultiColumnTextElement(ps, preset, width, position) ==
    LET style == IF preset = "custom" THEN Style("custom", TRUE)
                 ELSE Style(ps[PresetKey(preset)].base, TRUE)
    IN Element("multicolumn_text", preset, position, width, 1,
               <<element_write_cell("multicolumn_text", position, "text", style)>>
               \o (IF width > 1
                   THEN <<[op |-> "merge", part |-> "multicolumn_text",
                           range |-> <<excel_y(position), excel_x(position),
                                       excel_y(position), excel_x(position) + width - 1>>]>>
                   ELSE <<>>))

\* TableElement(df, x, y, title, caption) or GroupedTableElement(..., group_levels=0)
\* and its render: _calculate_layout from df, then the title, the table through
\* ExcelTableWriter or GroupedExcelTableWriter at table_layout.position, the caption
TableElement(ps, table, title, caption, grouped, position) ==
    LET title_height == IF title THEN 1 ELSE 0
        table_layout == from_df(table, position.x, position.y + title_height)
        caption_y == position.y + title_height + total_height(table_layout)
        calculated_height == caption_y + (IF caption THEN 1 ELSE 0) - position.y
        g == add_group_headers(table)
        lay == from_df(g.df, table_layout.position.x, table_layout.position.y)
    IN Element(IF grouped THEN "grouped_table" ELSE "table", "", position,
               total_width(table_layout), calculated_height,
               (IF title
                THEN <<element_write_cell("table_title", position, "text", ps["subtitle"])>>
                ELSE <<>>)
               \o (IF grouped
                   THEN write_all(g.df, lay, TRUE) \o row_heights(g.marker_column, lay)
                   ELSE write_all(table, table_layout, FALSE))
               \o (IF caption
                   THEN <<element_write_cell("table_caption",
                                             CellPosition(position.x, caption_y),
                                             "text", ps["caption"])>>
                   ELSE <<>>))

\* ------------------------------------------------------------------ worksheet.py
\* most elements on one worksheet
MaxElements == 3

\* the tables added: two flat rows, or three rows under a two-level index with the
\* groups "A" (two rows) and "B" (one row); two flat columns, no names
SheetTables ==
    {[index |-> PlainAxis, columns |-> PlainAxis],
     [index |-> TwoLevelAxis(Unnamed(2)), columns |-> PlainAxis]}

\* a WorksheetManager on a fresh worksheet, in a process that has imported the
\* element classes and done nothing else
InitSheet ==
    /\ pc = "sheet"
    /\ df = NoTable
    /\ layout = NoLayout
    /\ args = NoArgs
    /\ NothingComputed
    /\ FreshSheet
    /\ Untouched

\* self.elements.append(element); element.render(self.worksheet)
AddElement(element) ==
    LET borders == SelectSeq(element.rendered, LAMBDA op : op.op = "border")
        cs == [k \in 1..Len(borders) |-> borders[k].call]
    IN /\ pc = "sheet"
       /\ Len(elements) < MaxElements
       /\ elements' = Append(elements, element)
       /\ ops' = ops \o element.rendered
       /\ calls' = calls \o cs
       /\ ws_border' = ApplyCalls(ws_border, cs)
       /\ UNCHANGED <<pc, args, df, layout, computed, min_border_level, max_level, matcher,
                      writer, applied_merges, rejected, raised>>

\* WorksheetManager.add_title(text)
add_title ==
    /\ AddElement(TextElement("title", presets, "title", get_next_position(elements)))
    /\ UNCHANGED presets

\* WorksheetManager.add_text(text, style=..., style_preset=...): a preset, a name that
\* is no preset, or a style dict of the caller
add_text ==
    /\ \E preset \in {"default", "caption", "heading", "custom"} :
          AddElement(TextElement("text", presets, preset, get_next_position(elements)))
    /\ UNCHANGED presets

\* WorksheetManager.add_multicolumn_text(text, width, style=..., style_preset=...)
add_multicolumn_text ==
    \E preset \in {"default", "caption", "custom"}, width \in {1, 2} :
       /\ preset = "custom" => width = 2
       /\ presets' = WrapText(presets, preset)
       /\ AddElement(MultiColumnTextElement(presets', preset, width,
                                            get_next_position(elements)))

\* WorksheetManager.add_table(df, title=..., caption=..., group_levels=...): without
\* group_levels or with group_levels=0, the latter for a table with a MultiIndex
add_table ==
    /\ \E table \in SheetTables, titled, grouped \in BOOLEAN :
          /\ grouped => table.index.multi
          /\ AddElement(TableElement(presets, table, titled, titled, grouped,
                                     get_next_position(elements)))
    /\ UNCHANGED presets

\* WorksheetManager(workbook, sheet_name): the next export of the process, on a
\* worksheet of its own; the classes and their attributes stay as they are
NewWorksheetManager ==
    /\ pc = "sheet"
    /\ elements # <<>>
    /\ elements' = <<>>
    /\ ops' = <<>>
    /\ calls' = <<>>
    /\ ws_border' = NoCells
    /\ UNCHANGED <<pc, args, df, layout, computed, min_border_level, max_level, matcher,
                   writer, applied_merges, rejected, raised, presets>>

NextSheet ==
    \/ add_title
    \/ add_text
    \/ add_multicolumn_text
    \/ add_table
    \/ NewWorksheetManager

SpecSheet == InitSheet /\ [][NextSheet]_vars

\* ------------------------------------------------------------------ claims on exports
\* the style an element's text cell gets when the element is the only export of the
\* process: the preset as the class body defines it, or the caller's dict, with
\* wrap_text set by a MultiColumnTextElement only
StyleIfAlone(part, preset) ==
    CASE part = "table_title" -> Style("subtitle", FALSE)
      [] part = "table_caption" -> Style("caption", FALSE)
      [] part = "multicolumn_text" ->
            Style(IF preset = "custom" THEN "custom" ELSE PresetKey(preset), TRUE)
      [] OTHER -> Style(IF preset = "custom" THEN "custom" ELSE PresetKey(preset), FALSE)

\* the parts that write text cells
TextParts == {"title", "text", "multicolumn_text", "table_title", "table_caption"}

\* C22: no state is shared between successive exports: the style every text element,
\* title and caption of an export writes is the style it would write as the only
\* export of the process, whatever elements were constructed and rendered before it.
C22_StyleAsIfAlone ==
    \A i \in 1..Len(elements) : \A k \in 1..Len(elements[i].rendered) :
        LET op == elements[i].rendered[k]
        IN op.part \in TextParts /\ op.op = "cell" =>
              op.style = StyleIfAlone(op.part, elements[i].style_preset)

\* ------------------------------------------------------------------ claims on stacking
\* the cells (row, column), one-based, that an element has written or merged
ElementCells(element) ==
    UNION {CASE element.rendered[k].op = "cell" ->
                   {<<excel_y(element.rendered[k].position),
                      excel_x(element.rendered[k].position)>>}
             [] element.rendered[k].op = "merge" -> RangeCells(element.rendered[k].range)
             [] OTHER -> {} : k \in 1..Len(element.rendered)}

\* the rows, one-based, on which an element has written or merged a cell
ElementRows(element) == {c[1] : c \in ElementCells(element)}

\* C29: on a worksheet filled by add_title / add_text / add_multicolumn_text /
\* add_table calls without offsets every element starts on the row directly below
\* the last row the element before it occupies, no cell written or merged by one
\* element is written or merged by another, and all rows an element has rendered,
\* those of a grouped table included, lie within the height the element reports.
C29_Stacked ==
    /\ \A i \in 1..Len(elements) :
          \A row \in ElementRows(elements[i]) :
             /\ row >= excel_y(elements[i].position)
             /\ row <= excel_y(elements[i].position) + elements[i].height - 1
    /\ \A i \in 2..Len(elements) :
          \A row \in ElementRows(elements[i - 1]) : row < excel_y(elements[i].position)
    /\ \A i \in 2..Len(elements) :
          excel_y(elements[i].position) - 1 \in ElementRows(elements[i - 1])
    /\ \A i, j \in 1..Len(elements) :
          i < j => ElementCells(elements[i]) \cap ElementCells(elements[j]) = {}

\* the same for the worksheets without a grouped table
C29_StackedWithoutGroups ==
    (\A i \in 1..Len(elements) : elements[i].kind # "grouped_table") => C29_Stacked

====
